---- MODULE Spec2Model ----
(***************************************************************************)
(* Model of the bounded packet queue (src/packetqueue.cpp) of the live     *)
(* stream pull player, together with the player operations that act on    *)
(* the queue and on the running flag passed to push/pop                    *)
(* (src/livestreamplayer.cpp).                                             *)
(*                                                                         *)
(* One queue is modelled; its overflow policy and capacity are the         *)
(* constructor's arguments and are drawn at Init.  One producer (the       *)
(* demuxer) and one consumer (the decoder of that queue) call push and     *)
(* pop, as in the player.  Packets are identified by the order in which    *)
(* the producer hands them to push.                                        *)
(*                                                                         *)
(* m_mutex is held for a whole operation except while a thread waits on a  *)
(* condition variable, so an operation is one step; the DropOldest push    *)
(* is split at each load of the atomic running flag, the only thing that   *)
(* can change while the mutex is held.                                     *)
(*                                                                         *)
(* The second part models the player's session lifecycle                   *)
(* (src/livestreamplayer.cpp): start(), stop(), the asynchronous shutdown  *)
(* task, the three worker threads and the owner thread's event loop.  Its  *)
(* specifications are scenarios built from the same actions; the queue     *)
(* specification Spec leaves the player's state at its constructed value   *)
(* and the player specifications leave the single-queue state at its       *)
(* constructed value.                                                      *)
(***************************************************************************)
EXTENDS Integers, Sequences, FiniteSets, TLC

\* ---- bounds ----
MaxPackets == 3
MaxCap == 2
\* player part: capacity of the two player queues (90 and 180 in the code),
\* opens of the input that may succeed or fail on their own in one session,
\* and the value at which the dropped-packet count stops being counted
QueueCap == 1
MaxOpens == 2
MaxDropped == 1
\* the longest reconnect delay a session is run with, in units of sleeping
\* time (a unit is short enough for a stop request to be noticed promptly)
MaxDelay == 2
\* the most query items of a URL given to start()
MaxQuery == 3
\* the PCM bytes the audio decoder appends in all, the most of them in one
\* buffer, and the most bytes the audio sink reports free
MaxBytes == 4
MaxBuf == 2
MaxFree == 2
\* the most frames a decoder has ready for one packet
MaxFrames == 2

\* ---- the world ----
Policies == {"Block", "DropOldest"}
Capacities == 0..MaxCap
Producers == {"demux"}
Consumers == {"decoder"}
Threads == Producers \cup Consumers
NoThread == "none"

\* size_t is unsigned: a size that goes below zero wraps to this value
SIZE_MAX == (2^31) - 1

VARIABLES
    m_queue,      \* std::deque<AVPacket>: the resident packets, front first
    m_maxSize,    \* capacity
    m_closed,     \* closed flag
    m_policy,     \* overflow policy, fixed at construction
    droppedCount, \* the dropped-counter read by droppedCount()
    running,      \* the player's m_running, passed by reference to push/pop
    lockOwner,    \* the thread inside a multi-step critical section of m_mutex
    pc,           \* where each thread is
    cur,          \* the packet a producer is pushing
    ret,          \* what the thread's last push/pop returned
    nextId,       \* next packet the demuxer will read
    ub,           \* outcome of pop_front on an empty deque, "none" before
    pushedLog,    \* history: packets enqueued, in order, this session
    poppedLog,    \* history: packets handed out by pop, in order
    droppedSet,   \* history: packets discarded by push under DropOldest
    trimmedSet,   \* history: packets discarded by setMaxSize under DropOldest
    clearedSet,   \* history: packets released by clear()
    resized,      \* history: setMaxSize was called this session
    pushFailed,   \* history: some push returned false this session
    evicted,      \* history: the packets the push in progress has discarded
    lastOp        \* history: the last completed queue operation

VARIABLES
    m_stopRequested,  \* std::atomic<bool> m_stopRequested
    m_stopInProgress, \* std::atomic<bool> m_stopInProgress
    m_shutdownFuture, \* the shared_future published by stop(), NoFuture if invalid
    m_maxReconnectAttempts, \* retry limit
    m_reconnectDelayMs, \* delay between attempts
    sleepLeft,   \* what is left of the demuxer's sleep_for(delay)
    ctxHolder,   \* the thread that holds m_contextMutex, NoThread if none
    joinable,    \* std::thread::joinable() of m_demuxThread, m_videoThread, m_audioThread
    wpc,         \* where each worker thread is
    cop,         \* the API call each caller thread is inside, with its history
    cpc,         \* where each caller thread is inside its call
    cfut,        \* the future a caller holds (shutdownTask / futureCopy)
    tpc,         \* where each shutdown task is
    qn,          \* packets held by m_videoQueue / m_audioQueue
    qclosed,     \* closed flag of each player queue
    vDropped,    \* dropped counter of the video queue, counted up to MaxDropped
    ctx,         \* decoder contexts exist (m_formatCtx, codec and converter contexts)
    bitrate,     \* m_bitrateKbps: 0, or 1 for any positive value
    retryCount,  \* demuxLoop's local retryCount
    opens,       \* opens of the input that returned on their own this session
    statusLog,   \* history: statusChanged / terminal errorOccurred emissions this session
    terminated,  \* std::terminate was called
    urlGiven,    \* the URL the user interface passes to start()
    m_currentUrl, \* the URL start() stored and the demuxer opens
    m_audioPendingQueue, \* std::deque<QByteArray>: the pending PCM buffers
    localQueue,  \* processAudioQueue's local deque, from the buffer it is at
    offset,      \* processAudioQueue's offset into that buffer
    pumpPc,      \* where processAudioQueue is
    sinkWritten, \* history: the PCM bytes written to the audio device, in order
    appended,    \* history: how many PCM bytes the audio decoder has appended
    audioSetup,  \* what the audio part of openStream meets on this input and device
    conn,        \* the connection (its number among the opens) the published contexts belong to
    packet,      \* per decode loop: the connection of the packet it holds, or NoPacket
    frameImage   \* videoDecodeLoop's frameImage: how many images it holds to emit

playerVars == <<m_stopRequested, m_stopInProgress, m_shutdownFuture,
                m_maxReconnectAttempts, m_reconnectDelayMs, sleepLeft,
                ctxHolder, joinable, wpc, cop, cpc, cfut, tpc,
                qn, qclosed, vDropped, ctx, bitrate, retryCount, opens,
                statusLog, terminated, urlGiven, m_currentUrl,
                m_audioPendingQueue, localQueue, offset, pumpPc,
                sinkWritten, appended, audioSetup, conn, packet,
                frameImage>>

singleQueueVars == <<m_queue, m_maxSize, m_closed, m_policy, droppedCount,
                     lockOwner, pc, cur, ret, nextId, ub, pushedLog,
                     poppedLog, droppedSet, trimmedSet, clearedSet, resized,
                     pushFailed, evicted, lastOp>>

vars == <<singleQueueVars, running, playerVars>>

queueVars == <<m_queue, m_maxSize, m_closed, m_policy, droppedCount>>
histVars == <<pushedLog, poppedLog, droppedSet, trimmedSet, clearedSet,
              resized, pushFailed>>

\* ---- helpers ----
SeqToSet(s) == {s[i] : i \in 1..Len(s)}

\* the last n elements of s (all of s when n >= Len(s))
LastN(s, n) == IF n >= Len(s) THEN s ELSE SubSeq(s, Len(s) - n + 1, Len(s))

Min(a, b) == IF a < b THEN a ELSE b

\* size(): the deque's element count
size == IF ub = "wrap" THEN SIZE_MAX ELSE Len(m_queue)

\* the record of a completed operation; tick tells two operations of the
\* same name apart
OpArg(name, arg) == [name |-> name, arg |-> arg, tick |-> 1 - lastOp.tick]

Op(name) == OpArg(name, 0)

\* threads inside m_cvNotEmpty.wait / m_cvNotFull.wait, not yet notified
Waiters(cv) == {t \in Threads : pc[t] = "wait" \o cv}

\* the pc function after the threads in S, waiting on cv, have been notified
Wake(pcf, cv, S) ==
    [t \in Threads |-> IF t \in S /\ pcf[t] = "wait" \o cv
                       THEN "woke" \o cv ELSE pcf[t]]

NotifyAll(pcf, cv) == Wake(pcf, cv, Waiters(cv))

\* notify_one wakes one of the waiting threads, if there is one
NotifyOneChoices(cv) ==
    IF Waiters(cv) = {} THEN {{}} ELSE {{w} : w \in Waiters(cv)}

NoUB == ub = "none"

\* ---- the player's world ----
Workers == {"demuxer", "video", "audio"}
Decoders == {"video", "audio"}
\* the thread the player object lives in (the UI thread) and another thread
Owner == "owner"
Callers == {Owner, "ext"}
\* shutdown tasks launched by std::async; a future is the task it waits for
Tasks == {1, 2}
NoFuture == 0
\* retry limits the sessions are run with
AttemptLimits == {0, 1, 2}
kMaxReconnectAttempts == 5
kReconnectDelayMs == 2000

\* a URL, as far as sanitizeInputUrl looks at it: the scheme as written and
\* the keys of the query items in their order (only URLs that QUrl finds
\* valid)
Schemes == {"rtmp", "tcp", "RTMP", "rtsp", "http"}
QueryKeys == {"listen", "listen_timeout", "token"}
Queries == UNION {[1..n -> QueryKeys] : n \in 0..MaxQuery}
Urls == [scheme : Schemes, query : Queries]
NoUrl == [scheme |-> "", query |-> <<>>]
\* the URL of the sessions whose URL does not matter
SampleUrl == [scheme |-> "rtsp", query |-> <<>>]

\* the queue a decoder pops from
QueueOf(w) == w

\* a statusChanged / errorOccurred emission; k is the attempt number shown
\* by "Retrying connection (k/N)"
StK(s, k) == [s |-> s, k |-> k]

St(s) == StK(s, 0)

\* the player as LiveStreamPlayer's constructor leaves it (lines 102-122
\* and the member initialisers of livestreamplayer.h)
\* a decode loop's AVPacket holds no data
NoPacket == 0

PlayerConstructed ==
    /\ m_stopRequested = FALSE
    /\ m_stopInProgress = FALSE
    /\ m_shutdownFuture = NoFuture
    /\ joinable = [w \in Workers |-> FALSE]
    /\ wpc = [w \in Workers |-> "none"]
    /\ cop = [c \in Callers |-> "none"]
    /\ cpc = [c \in Callers |-> "idle"]
    /\ cfut = [c \in Callers |-> NoFuture]
    /\ tpc = [t \in Tasks |-> "none"]
    /\ qn = [q \in Decoders |-> 0]
    /\ qclosed = [q \in Decoders |-> FALSE]
    /\ vDropped = 0
    /\ ctx = FALSE
    /\ bitrate = 0
    /\ retryCount = 0
    /\ opens = 0
    /\ statusLog = <<>>
    /\ terminated = FALSE
    /\ sleepLeft = 0
    /\ ctxHolder = NoThread
    /\ m_currentUrl = NoUrl
    /\ m_audioPendingQueue = <<>>
    /\ localQueue = <<>>
    /\ offset = 0
    /\ pumpPc = "idle"
    /\ sinkWritten = <<>>
    /\ appended = 0
    /\ conn = 0
    /\ packet = [w \in Decoders |-> NoPacket]
    /\ frameImage = 0

\* the single queue as PacketQueue's constructor leaves it
QueueConstructed ==
    /\ m_queue = <<>>
    /\ m_closed = FALSE
    /\ droppedCount = 0
    /\ lockOwner = NoThread
    /\ pc = [t \in Threads |-> "idle"]
    /\ cur = [t \in Producers |-> 0]
    /\ ret = [t \in Threads |-> "none"]
    /\ nextId = 1
    /\ ub = "none"
    /\ pushedLog = <<>>
    /\ poppedLog = <<>>
    /\ droppedSet = {}
    /\ trimmedSet = {}
    /\ clearedSet = {}
    /\ resized = FALSE
    /\ pushFailed = FALSE
    /\ evicted = [t \in Producers |-> {}]
    /\ lastOp = [name |-> "init", arg |-> 0, tick |-> 0]

\* ---- construction ----
Init ==
    /\ PlayerConstructed
    /\ m_maxReconnectAttempts = kMaxReconnectAttempts
    /\ m_reconnectDelayMs = kReconnectDelayMs
    /\ urlGiven = SampleUrl
    /\ audioSetup = "ok"
    /\ m_queue = <<>>
    /\ m_maxSize \in Capacities
    /\ m_closed = FALSE
    /\ m_policy \in Policies
    /\ droppedCount = 0
    /\ running = FALSE
    /\ lockOwner = NoThread
    /\ pc = [t \in Threads |-> "idle"]
    /\ cur = [t \in Producers |-> 0]
    /\ ret = [t \in Threads |-> "none"]
    /\ nextId = 1
    /\ ub = "none"
    /\ pushedLog = <<>>
    /\ poppedLog = <<>>
    /\ droppedSet = {}
    /\ trimmedSet = {}
    /\ clearedSet = {}
    /\ resized = FALSE
    /\ pushFailed = FALSE
    /\ evicted = [t \in Producers |-> {}]
    /\ lastOp = [name |-> "init", arg |-> 0, tick |-> 0]

\* ---- PacketQueue::push, Block policy (packetqueue.cpp 56-63, 76-83) ----
\* One critical section: the wait predicate, the closed/running test, the
\* copy and the enqueue.  A thread enters it when it calls push or when it
\* has been notified while waiting on m_cvNotFull.
\* (variant: the capacity test admits a push into a full queue)
NotFullPred_OffByOne == m_closed \/ size <= m_maxSize \/ ~running

NotFullPred == m_closed \/ size < m_maxSize \/ ~running

\* (variant: the closed flag is not tested)
PushRejected_IgnoresClosed == ~running

PushRejected == m_closed \/ ~running

PushBlock(t) ==
    /\ NoUB
    /\ m_policy = "Block"
    /\ lockOwner = NoThread
    /\ pc[t] \in {"idle", "wokeNotFull"}
    /\ pc[t] = "idle" => nextId <= MaxPackets
    /\ LET p == IF pc[t] = "idle" THEN nextId ELSE cur[t] IN
       /\ cur' = [cur EXCEPT ![t] = p]
       /\ nextId' = IF pc[t] = "idle" THEN nextId + 1 ELSE nextId
       /\ IF ~NotFullPred
          THEN \* m_cvNotFull.wait releases the mutex and blocks
               /\ pc' = [pc EXCEPT ![t] = "waitNotFull"]
               /\ ret' = [ret EXCEPT ![t] = "none"]
               /\ UNCHANGED <<m_queue, pushedLog, pushFailed, lastOp>>
          ELSE IF PushRejected
          THEN /\ pc' = [pc EXCEPT ![t] = "idle"]
               /\ ret' = [ret EXCEPT ![t] = "false"]
               /\ pushFailed' = TRUE
               /\ lastOp' = Op("push")
               /\ UNCHANGED <<m_queue, pushedLog>>
          ELSE \E refOk \in BOOLEAN :
               IF ~refOk
               THEN \* av_packet_ref failed
                    /\ pc' = [pc EXCEPT ![t] = "idle"]
                    /\ ret' = [ret EXCEPT ![t] = "false"]
                    /\ pushFailed' = TRUE
                    /\ lastOp' = Op("push")
                    /\ UNCHANGED <<m_queue, pushedLog>>
               ELSE /\ m_queue' = Append(m_queue, p)
                    /\ pushedLog' = Append(pushedLog, p)
                    /\ \E S \in NotifyOneChoices("NotEmpty") :
                         pc' = Wake([pc EXCEPT ![t] = "idle"], "NotEmpty", S)
                    /\ ret' = [ret EXCEPT ![t] = "true"]
                    /\ lastOp' = Op("push")
                    /\ UNCHANGED pushFailed
    /\ UNCHANGED <<m_maxSize, m_closed, m_policy, droppedCount, running,
                   lockOwner, ub, poppedLog, droppedSet, trimmedSet,
                   clearedSet, resized>>
    /\ UNCHANGED <<evicted, playerVars>>

\* ---- PacketQueue::push, DropOldest policy (packetqueue.cpp 64-83) ----
\* the while condition of line 65
DropLoopCond == ~m_closed /\ running /\ size >= m_maxSize

\* the dropped-counter after one more packet has been discarded by push
DroppedCountAfterDrop(c) == c + 1

\* the dropped-counter after resetDroppedCount()
ResetDroppedCount == 0

\* (variant: the newest packet is discarded instead of the oldest)
DropOldestPacket_Newest(q) == SubSeq(q, 1, Len(q) - 1)

\* the deque after pop_front
DropOldestPacket(q) == Tail(q)

\* One evaluation of the while condition and, when it holds, one pass
\* through the loop body.  The mutex stays held (lockOwner) until the push
\* returns.  front()/pop_front() on an empty deque is undefined: the
\* process crashes, or the deque's size wraps below zero; nothing is
\* modelled after it.
PushDropLoop(t) ==
    /\ NoUB
    /\ m_policy = "DropOldest"
    /\ \/ /\ pc[t] = "idle"
          /\ lockOwner = NoThread
          /\ nextId <= MaxPackets
          /\ cur' = [cur EXCEPT ![t] = nextId]
          /\ nextId' = nextId + 1
       \/ /\ pc[t] = "pushLoop"
          /\ lockOwner = t
          /\ UNCHANGED <<cur, nextId>>
    /\ ret' = [ret EXCEPT ![t] = "none"]
    /\ IF DropLoopCond
       THEN IF m_queue = <<>>
            THEN /\ ub' \in {"crash", "wrap"}
                 /\ pc' = [pc EXCEPT ![t] = "pushLoop"]
                 /\ lockOwner' = t
                 /\ UNCHANGED <<m_queue, droppedCount, droppedSet, evicted>>
            ELSE /\ m_queue' = DropOldestPacket(m_queue)
                 /\ droppedCount' = DroppedCountAfterDrop(droppedCount)
                 /\ droppedSet' = droppedSet \cup {Head(m_queue)}
                 /\ evicted' = [evicted EXCEPT ![t] = @ \cup {Head(m_queue)}]
                 /\ pc' = [pc EXCEPT ![t] = "pushLoop"]
                 /\ lockOwner' = t
                 /\ UNCHANGED ub
       ELSE /\ pc' = [pc EXCEPT ![t] = "pushCheck"]
            /\ lockOwner' = t
            /\ UNCHANGED <<m_queue, droppedCount, droppedSet, ub, evicted>>
    /\ UNCHANGED <<m_maxSize, m_closed, m_policy, running, pushedLog,
                   poppedLog, trimmedSet, clearedSet, resized, pushFailed,
                   lastOp>>
    /\ UNCHANGED playerVars

\* lines 71-83: the closed/running test after the loop, the copy, the enqueue
PushDropCheck(t) ==
    /\ NoUB
    /\ pc[t] = "pushCheck"
    /\ lockOwner = t
    /\ lockOwner' = NoThread
    /\ evicted' = [evicted EXCEPT ![t] = {}]
    /\ IF PushRejected
       THEN /\ pc' = [pc EXCEPT ![t] = "idle"]
            /\ ret' = [ret EXCEPT ![t] = "false"]
            /\ pushFailed' = TRUE
            /\ lastOp' = Op("push")
            /\ UNCHANGED <<m_queue, pushedLog>>
       ELSE \E refOk \in BOOLEAN :
            IF ~refOk
            THEN /\ pc' = [pc EXCEPT ![t] = "idle"]
                 /\ ret' = [ret EXCEPT ![t] = "false"]
                 /\ pushFailed' = TRUE
                 /\ lastOp' = Op("push")
                 /\ UNCHANGED <<m_queue, pushedLog>>
            ELSE /\ m_queue' = Append(m_queue, cur[t])
                 /\ pushedLog' = Append(pushedLog, cur[t])
                 /\ \E S \in NotifyOneChoices("NotEmpty") :
                      pc' = Wake([pc EXCEPT ![t] = "idle"], "NotEmpty", S)
                 /\ ret' = [ret EXCEPT ![t] = "true"]
                 /\ lastOp' = Op("push")
                 /\ UNCHANGED pushFailed
    /\ UNCHANGED <<m_maxSize, m_closed, m_policy, droppedCount, running,
                   cur, nextId, ub, poppedLog, droppedSet, trimmedSet,
                   clearedSet, resized>>
    /\ UNCHANGED playerVars

\* ---- PacketQueue::pop (packetqueue.cpp 92-106) ----
NotEmptyPred == m_closed \/ m_queue # <<>> \/ ~running

\* (variant: the front packet is handed out but stays in the deque)
PopResult_KeepsFront(q) == [pkt |-> Head(q), rest |-> q]

\* (variant: the back packet is handed out)
PopResult_Back(q) == [pkt |-> q[Len(q)], rest |-> SubSeq(q, 1, Len(q) - 1)]

\* lines 100-102: the packet moved out and what stays in the deque
PopResult(q) == [pkt |-> Head(q), rest |-> Tail(q)]

Pop(t) ==
    /\ NoUB
    /\ lockOwner = NoThread
    /\ pc[t] \in {"idle", "wokeNotEmpty"}
    /\ IF ~NotEmptyPred
       THEN /\ pc' = [pc EXCEPT ![t] = "waitNotEmpty"]
            /\ ret' = [ret EXCEPT ![t] = "none"]
            /\ UNCHANGED <<m_queue, poppedLog, lastOp>>
       ELSE IF m_queue = <<>>
       THEN /\ pc' = [pc EXCEPT ![t] = "idle"]
            /\ ret' = [ret EXCEPT ![t] = "false"]
            /\ lastOp' = Op("pop")
            /\ UNCHANGED <<m_queue, poppedLog>>
       ELSE /\ m_queue' = PopResult(m_queue).rest
            /\ poppedLog' = Append(poppedLog, PopResult(m_queue).pkt)
            /\ \E S \in NotifyOneChoices("NotFull") :
                 pc' = Wake([pc EXCEPT ![t] = "idle"], "NotFull", S)
            /\ ret' = [ret EXCEPT ![t] = "true"]
            /\ lastOp' = Op("pop")
    /\ UNCHANGED <<m_maxSize, m_closed, m_policy, droppedCount, running,
                   lockOwner, cur, nextId, ub, pushedLog, droppedSet,
                   trimmedSet, clearedSet, resized, pushFailed>>
    /\ UNCHANGED <<evicted, playerVars>>

\* a waiting thread may wake without a notification (condition_variable)
SpuriousWakeup(t) ==
    /\ NoUB
    /\ pc[t] \in {"waitNotEmpty", "waitNotFull"}
    /\ pc' = [pc EXCEPT ![t] = IF pc[t] = "waitNotEmpty"
                               THEN "wokeNotEmpty" ELSE "wokeNotFull"]
    /\ UNCHANGED <<queueVars, running, lockOwner, cur, ret, nextId, ub,
                   histVars, lastOp>>
    /\ UNCHANGED <<evicted, playerVars>>

\* ---- PacketQueue::setMaxSize (packetqueue.cpp 37-48) ----
\* (variant: the trimming loop pops from the back)
RECURSIVE TrimTo_Back(_, _)
TrimTo_Back(q, n) ==
    IF Len(q) > n THEN TrimTo_Back(SubSeq(q, 1, Len(q) - 1), n) ELSE q

\* the loop of lines 41-45: pop_front while size() > m_maxSize
RECURSIVE TrimTo(_, _)
TrimTo(q, n) == IF Len(q) > n THEN TrimTo(Tail(q), n) ELSE q

SetMaxSize(n) ==
    /\ NoUB
    /\ lockOwner = NoThread
    /\ m_maxSize' = n
    /\ m_queue' = IF m_policy = "DropOldest" THEN TrimTo(m_queue, n)
                  ELSE m_queue
    /\ trimmedSet' = trimmedSet \cup (SeqToSet(m_queue) \ SeqToSet(m_queue'))
    /\ pc' = NotifyAll(pc, "NotFull")
    /\ resized' = TRUE
    /\ lastOp' = OpArg("setMaxSize", n)
    /\ UNCHANGED <<m_closed, m_policy, droppedCount, running, lockOwner,
                   cur, ret, nextId, ub, pushedLog, poppedLog, droppedSet,
                   clearedSet, pushFailed>>
    /\ UNCHANGED <<evicted, playerVars>>

\* ---- PacketQueue::clear (packetqueue.cpp 111-118) ----
Clear ==
    /\ NoUB
    /\ lockOwner = NoThread
    /\ m_queue' = <<>>
    /\ clearedSet' = clearedSet \cup SeqToSet(m_queue)
    /\ pc' = NotifyAll(pc, "NotFull")
    /\ lastOp' = Op("clear")
    /\ UNCHANGED <<m_maxSize, m_closed, m_policy, droppedCount, running,
                   lockOwner, cur, ret, nextId, ub, pushedLog, poppedLog,
                   droppedSet, trimmedSet, resized, pushFailed>>
    /\ UNCHANGED <<evicted, playerVars>>

\* ---- PacketQueue::close (packetqueue.cpp 123-130) ----
\* (variant: close() sets the flag and notifies nobody)
CloseNotify_None(pcf) == pcf

\* (variant: close() also releases the resident packets)
CloseContents_Cleared(q) == <<>>

\* the deque after close(): untouched
CloseContents(q) == q

\* lines 128-129: notify_all on both condition variables
CloseNotify(pcf) == NotifyAll(NotifyAll(pcf, "NotEmpty"), "NotFull")

Close ==
    /\ NoUB
    /\ lockOwner = NoThread
    /\ m_closed' = TRUE
    /\ m_queue' = CloseContents(m_queue)
    /\ pc' = CloseNotify(pc)
    /\ lastOp' = Op("close")
    /\ UNCHANGED <<m_maxSize, m_policy, droppedCount, running,
                   lockOwner, cur, ret, nextId, ub, histVars>>
    /\ UNCHANGED <<evicted, playerVars>>

\* ---- PacketQueue::open (packetqueue.cpp 135-141) ----
\* (the history records an open() that directly follows a close() as
\* "closeOpen")
Open ==
    /\ NoUB
    /\ lockOwner = NoThread
    /\ m_closed' = FALSE
    /\ pc' = NotifyAll(pc, "NotFull")
    /\ lastOp' = Op(IF lastOp.name = "close" THEN "closeOpen" ELSE "open")
    /\ UNCHANGED <<m_queue, m_maxSize, m_policy, droppedCount, running,
                   lockOwner, cur, ret, nextId, ub, histVars>>
    /\ UNCHANGED <<evicted, playerVars>>

\* ---- the player's stores to m_running ----
\* m_running.store(false): stopInternal (livestreamplayer.cpp 200) and the
\* demuxer on retry exhaustion (284, 357).  No condition variable is
\* notified by the store.
StoreRunningFalse ==
    /\ NoUB
    /\ running
    /\ running' = FALSE
    /\ UNCHANGED <<queueVars, lockOwner, pc, cur, ret, nextId, ub, histVars,
                   lastOp>>
    /\ UNCHANGED <<evicted, playerVars>>

\* (variant: start() without the resetDroppedCount() call of line 148)
Start_NoReset ==
    /\ NoUB
    /\ lockOwner = NoThread
    /\ \A t \in Threads : pc[t] = "idle"
    /\ m_queue' = <<>>
    /\ droppedCount' = droppedCount
    /\ m_closed' = FALSE
    /\ running' = TRUE
    /\ pushedLog' = <<>>
    /\ poppedLog' = <<>>
    /\ droppedSet' = {}
    /\ trimmedSet' = {}
    /\ clearedSet' = {}
    /\ resized' = FALSE
    /\ pushFailed' = FALSE
    /\ lastOp' = Op("start")
    /\ UNCHANGED <<m_maxSize, m_policy, lockOwner, pc, cur, ret, nextId, ub>>
    /\ UNCHANGED <<evicted, playerVars>>

\* LiveStreamPlayer::start, lines 146-152, as far as the queue is concerned:
\* clear(), resetDroppedCount(), open(), m_running.store(true).  start()
\* reaches these lines after stop() and waitForShutdownCompletion(), that is
\* with the worker threads of the previous session joined.
Start ==
    /\ NoUB
    /\ lockOwner = NoThread
    /\ \A t \in Threads : pc[t] = "idle"
    /\ m_queue' = <<>>
    /\ droppedCount' = ResetDroppedCount
    /\ m_closed' = FALSE
    /\ running' = TRUE
    /\ pushedLog' = <<>>
    /\ poppedLog' = <<>>
    /\ droppedSet' = {}
    /\ trimmedSet' = {}
    /\ clearedSet' = {}
    /\ resized' = FALSE
    /\ pushFailed' = FALSE
    /\ lastOp' = Op("start")
    /\ UNCHANGED <<m_maxSize, m_policy, lockOwner, pc, cur, ret, nextId, ub>>
    /\ UNCHANGED <<evicted, playerVars>>

\* ---- specification ----
Next ==
    \/ \E t \in Producers : PushBlock(t)
    \/ \E t \in Producers : PushDropLoop(t)
    \/ \E t \in Producers : PushDropCheck(t)
    \/ \E t \in Consumers : Pop(t)
    \/ \E t \in Threads : SpuriousWakeup(t)
    \/ \E n \in Capacities : SetMaxSize(n)
    \/ Clear
    \/ Close
    \/ Open
    \/ StoreRunningFalse
    \/ Start

Spec == Init /\ [][Next]_vars

\* a thread inside push or pop takes its next step when it can: it
\* re-evaluates its predicate after a notification and finishes a critical
\* section it has entered.  Nothing obliges a thread to call push or pop,
\* the controller to act, or a wait to end without a notification.
Resume(t) ==
    /\ pc[t] # "idle"
    /\ \/ t \in Producers /\ (PushBlock(t) \/ PushDropLoop(t) \/ PushDropCheck(t))
       \/ t \in Consumers /\ Pop(t)

FairSpec == Init /\ [][Next]_vars /\ \A t \in Threads : WF_vars(Resume(t))

\* ---- type invariant ----
TypeOK ==
    /\ m_queue \in Seq(1..MaxPackets)
    /\ m_maxSize \in Capacities
    /\ m_closed \in BOOLEAN
    /\ m_policy \in Policies
    /\ droppedCount \in Nat
    /\ running \in BOOLEAN
    /\ lockOwner \in Threads \cup {NoThread}
    /\ ub \in {"none", "crash", "wrap"}
    /\ nextId \in 1..(MaxPackets + 1)

\* ---- steps, as recorded in the history ----
\* this step completes an operation called name
StepOf(name) == lastOp' # lastOp /\ lastOp'.name = name

RECURSIVE IsSubseq(_, _)
\* a is b with zero or more elements left out
IsSubseq(a, b) ==
    IF a = <<>> THEN TRUE
    ELSE IF b = <<>> THEN FALSE
    ELSE IF Head(a) = Head(b) THEN IsSubseq(Tail(a), Tail(b))
    ELSE IsSubseq(a, Tail(b))

\* C1 (as claimed): in every reachable state the number of packets held is at
\* most the configured capacity, under either policy and after any
\* interleaving of push, pop, clear, close, open and set_max_size.
C1_SizeWithinCapacity == NoUB => Len(m_queue) <= m_maxSize

\* C1 (amended): under DropOldest with a capacity of at least 1 the size never
\* exceeds the capacity; under Block no step that leaves the size above the
\* capacity has grown the queue: push never enqueues beyond the capacity, and
\* the size is above it only after set_max_size lowered the capacity below
\* the resident count, which Block does not trim.
C1_SizeWithinCapacityUnlessShrunk ==
    [][ /\ (m_policy' = "DropOldest" /\ m_maxSize' >= 1 => size' <= m_maxSize')
        /\ (m_policy' = "Block" /\ size' > m_maxSize'
              => size' <= size /\ (size' = size => StepOf("setMaxSize") \/ size > m_maxSize))
      ]_vars

\* a Block queue left above its capacity by set_max_size, with a push waiting
C1_Witness ==
    /\ m_policy = "Block"
    /\ Len(m_queue) > m_maxSize
    /\ \E t \in Producers : pc[t] = "waitNotFull"

\* only successful pushes have happened this session and none is in progress
OnlyPushes ==
    /\ NoUB
    /\ poppedLog = <<>>
    /\ clearedSet = {}
    /\ ~resized
    /\ ~pushFailed
    /\ \A t \in Producers : pc[t] = "idle"

\* C2: under DropOldest with capacity C, after M > C pushes into an open
\* queue with running true and no pops, the queue holds exactly the C most
\* recently pushed packets in push order, the discarded ones are the M - C
\* oldest, and dropped_count has grown (from 0 at start) by exactly M - C.
C2_DropOldestKeepsNewest ==
    (m_policy = "DropOldest" /\ OnlyPushes /\ Len(pushedLog) > m_maxSize)
        => /\ m_queue = LastN(pushedLog, m_maxSize)
           /\ droppedSet = SeqToSet(SubSeq(pushedLog, 1, Len(pushedLog) - m_maxSize))
           /\ droppedCount = Len(pushedLog) - m_maxSize

C2_Witness ==
    /\ m_policy = "DropOldest"
    /\ OnlyPushes
    /\ m_maxSize >= 2
    /\ Len(pushedLog) > m_maxSize

\* C3: at every point the packets successfully pushed are exactly those
\* popped, still resident, dropped by the overflow policy (by push or by
\* set_max_size under DropOldest) or released by clear(), each in exactly one
\* of these places.
C3_PacketAccounting ==
    /\ SeqToSet(pushedLog) =
          SeqToSet(m_queue) \cup SeqToSet(poppedLog) \cup droppedSet
            \cup trimmedSet \cup clearedSet
    /\ Cardinality(SeqToSet(pushedLog)) = Len(pushedLog)
    /\ Len(pushedLog) =
          Len(m_queue) + Len(poppedLog) + Cardinality(droppedSet)
            + Cardinality(trimmedSet) + Cardinality(clearedSet)

C3_Witness ==
    /\ poppedLog # <<>>
    /\ droppedSet # {}
    /\ clearedSet # {}

\* C4: the sequence of packets popped is a subsequence of the sequence
\* pushed, in the same relative order.
C4_FIFO == IsSubseq(poppedLog, pushedLog)

C4_Witness == Len(poppedLog) >= 2 /\ Len(pushedLog) > Len(poppedLog)

\* C5: while the queue is closed no push succeeds (it returns false, enqueues
\* nothing and removes nothing), a pop never waits, a pop on a non-empty
\* queue returns true with the front packet, and a pop on an empty queue
\* returns false.  (One producer and one consumer: a completed push or pop is
\* theirs.)
C5_ClosedQueue ==
    [][ (m_closed /\ m_closed' /\ NoUB) =>
          /\ pushedLog' = pushedLog
          /\ droppedSet' = droppedSet
          /\ \A t \in Threads :
                pc'[t] \in {"waitNotEmpty", "waitNotFull"} => pc'[t] = pc[t]
          /\ StepOf("push") =>
                /\ \A t \in Producers : ret'[t] = "false"
                /\ m_queue' = m_queue
          /\ StepOf("pop") =>
                IF m_queue # <<>>
                THEN /\ \A t \in Consumers : ret'[t] = "true"
                     /\ poppedLog' = Append(poppedLog, Head(m_queue))
                     /\ m_queue' = Tail(m_queue)
                ELSE /\ \A t \in Consumers : ret'[t] = "false"
                     /\ poppedLog' = poppedLog
                     /\ m_queue' = m_queue
      ]_vars

\* closed, a push has been refused while running, and a pop has just drained
\* a packet
C5_Witness ==
    /\ m_closed
    /\ running
    /\ pushFailed
    /\ lastOp.name = "pop"
    /\ \E t \in Consumers : ret[t] = "true"

\* ---- waiting threads ----
\* t is inside m_cvNotEmpty.wait / m_cvNotFull.wait (notified or not)
BlockedInPop(t) == pc[t] \in {"waitNotEmpty", "wokeNotEmpty"}
BlockedInPush(t) == pc[t] \in {"waitNotFull", "wokeNotFull"}
\* a pop blocked on an empty queue, a push blocked on a full queue
BlockedOnEmpty(t) == BlockedInPop(t) /\ m_queue = <<>>
BlockedOnFull(t) == BlockedInPush(t) /\ size >= m_maxSize
ReturnedFalse(t) == pc[t] = "idle" /\ ret[t] = "false"

\* C6 (as claimed): under Block policy every push blocked on a full queue and
\* every pop blocked on an empty queue when close() is called eventually
\* returns false.
C6_BlockedReturnsFalseAfterClose ==
    \A t \in Threads :
        (m_policy = "Block" /\ m_closed /\ (BlockedOnEmpty(t) \/ BlockedOnFull(t)))
            ~> ReturnedFalse(t)

\* C6 (amended): under Block policy a push blocked on a full queue or a pop
\* blocked on an empty queue when close() is called eventually returns false,
\* unless the queue is re-opened before the waiter has re-evaluated its
\* predicate.
C6_BlockedReturnsFalseWhileClosed ==
    \A t \in Threads :
        (m_policy = "Block" /\ m_closed /\ (BlockedOnEmpty(t) \/ BlockedOnFull(t)))
            ~> (ReturnedFalse(t) \/ ~m_closed)

\* close() has just woken a push that was blocked on a full Block queue
C6_Witness ==
    /\ m_policy = "Block"
    /\ m_closed
    /\ running
    /\ lastOp.name = "close"
    /\ m_maxSize >= 1
    /\ \E t \in Producers : pc[t] = "wokeNotFull" /\ BlockedOnFull(t)

\* C7: a pop blocked on an empty open queue, and a Block-policy push blocked
\* on a full open queue, returns false once running is false, whatever else
\* happens to the queue.
C7_BlockedReturnsFalseWhenNotRunning ==
    \A t \in Threads :
        (~m_closed /\ ~running /\ (BlockedOnEmpty(t) \/ BlockedOnFull(t)))
            ~> ReturnedFalse(t)

\* C8 (as claimed): close() followed by open() leaves the capacity and the
\* policy unchanged and leaves the queue empty and open.
C8_CloseOpenEmpties ==
    [][ StepOf("closeOpen") =>
          /\ m_queue' = <<>>
          /\ ~m_closed'
          /\ m_maxSize' = m_maxSize
          /\ m_policy' = m_policy
      ]_vars

\* C8 (amended): close() followed by open() leaves the capacity, the policy
\* and the contents unchanged and leaves the queue open.
C8_CloseOpenPreserves ==
    [][ /\ StepOf("close") =>
            /\ m_queue' = m_queue
            /\ m_closed'
            /\ m_maxSize' = m_maxSize
            /\ m_policy' = m_policy
        /\ StepOf("closeOpen") =>
            /\ m_queue' = m_queue
            /\ ~m_closed'
            /\ m_maxSize' = m_maxSize
            /\ m_policy' = m_policy
      ]_vars

\* close(); open() has just run on a queue that holds packets
C8_Witness == lastOp.name = "closeOpen" /\ m_queue # <<>> /\ ~m_closed

\* C9: set_max_size(n) sets the capacity to n and removes packets only from
\* the front; under DropOldest it leaves exactly the min(size, n) most
\* recently pushed packets, in their order.
C9_SetMaxSizeTrimsFront ==
    [][ StepOf("setMaxSize") =>
          /\ m_maxSize' = lastOp'.arg
          /\ m_queue' = LastN(m_queue, Len(m_queue'))
          /\ m_policy = "DropOldest" =>
                Len(m_queue') = Min(Len(m_queue), lastOp'.arg)
      ]_vars

\* set_max_size has just trimmed a DropOldest queue and left packets in it
C9_Witness ==
    /\ lastOp.name = "setMaxSize"
    /\ m_policy = "DropOldest"
    /\ trimmedSet # {}
    /\ m_queue # <<>>

\* C10: dropped_count is 0 right after start() and no other step lowers it.
C10_DroppedCountMonotonic ==
    [][ /\ StepOf("start") => droppedCount' = 0
        /\ ~StepOf("start") => droppedCount' >= droppedCount
      ]_vars

\* a stopped session (flag cleared, queue closed and cleared) keeps its count
C10_Witness ==
    /\ droppedCount >= 1
    /\ ~running
    /\ m_closed
    /\ lastOp.name = "clear"

\* ======================================================================
\* The player: sessions, workers, shutdown (src/livestreamplayer.cpp)
\* ======================================================================
\* a step of the player: the process has not been terminated, and the
\* single queue of the first part is not involved
PFrame == ~terminated /\ UNCHANGED singleQueueVars

D == "demuxer"

Emit(s) == statusLog' = Append(statusLog, St(s))

\* ---- the two player queues (packetqueue.cpp, by packet count) ----
\* m_cvNotEmpty.notify: the decoder of queue q, if it waits in pop, wakes
WakePop(f, q) == [f EXCEPT ![q] = IF @ = "popWait" THEN "popWoke" ELSE @]

\* m_cvNotFull.notify: only the audio queue has the Block policy, so only a
\* demuxer waiting in its push can wait on this condition
WakePush(f, q) ==
    IF q = "audio"
    THEN [f EXCEPT ![D] = IF @ = "pushWait" THEN "pushWoke" ELSE @]
    ELSE f

\* close() of both queues: notify_all on both conditions of each
\* (variant: close() notifies nobody)
CloseBoth_NoNotify(f) == f

CloseBoth(f) == WakePush(WakePop(WakePop(f, "video"), "audio"), "audio")

\* A wait that ends without a notification is not modelled: a thread that
\* re-evaluates its predicate then does what a thread does that calls push
\* or pop at that moment.

\* the predicate pop waits for
PopPred(q) == qclosed[q] \/ qn[q] > 0 \/ ~running

\* the predicate a Block push waits for
PushPred(q) == qclosed[q] \/ qn[q] < QueueCap \/ ~running

\* interruptCallback: FFmpeg's blocking open and read give up when it
\* returns 1
Interrupted == ~running \/ m_stopRequested

\* std::lock_guard<std::mutex> lock(m_contextMutex) can be constructed
MutexFree == ctxHolder = NoThread

\* ---- demuxLoop ----

\* line 272 and the head of openStream: while (m_running), closeStream()
\* (which takes m_contextMutex for its whole body, lines 880-910), then the
\* blocking avformat_open_input
DemuxTop ==
    /\ PFrame
    /\ wpc[D] = "top"
    /\ IF running
       THEN /\ MutexFree
            /\ wpc' = [wpc EXCEPT ![D] = "opening"]
            /\ ctx' = FALSE
       ELSE wpc' = [wpc EXCEPT ![D] = "done"] /\ UNCHANGED ctx
    /\ UNCHANGED <<running, m_stopRequested, m_stopInProgress,
                   m_shutdownFuture, m_maxReconnectAttempts,
                   m_reconnectDelayMs, sleepLeft, ctxHolder, joinable, cop,
                   cpc, cfut, tpc, qn, qclosed, vDropped, bitrate,
                   retryCount, opens, statusLog, terminated, urlGiven,
                   m_currentUrl, m_audioPendingQueue, localQueue, offset,
                   pumpPc, sinkWritten, appended, audioSetup, conn, packet,
                   frameImage>>

\* openStream returns false (lines 606-720): the input cannot be opened, or
\* the interrupt callback ended the attempt
DemuxOpenFails ==
    /\ PFrame
    /\ wpc[D] = "opening"
    /\ opens < MaxOpens \/ Interrupted
    /\ opens' = IF opens < MaxOpens THEN opens + 1 ELSE opens
    /\ wpc' = [wpc EXCEPT ![D] = "openFailed"]
    /\ UNCHANGED <<running, m_stopRequested, m_stopInProgress,
                   m_shutdownFuture, m_maxReconnectAttempts,
                   m_reconnectDelayMs, sleepLeft, ctxHolder, joinable, cop,
                   cpc, cfut, tpc, qn, qclosed, vDropped, ctx, bitrate,
                   retryCount, statusLog, terminated, urlGiven, m_currentUrl,
                   m_audioPendingQueue, localQueue, offset, pumpPc,
                   sinkWritten, appended, audioSetup, conn, packet,
                   frameImage>>

\* avformat_open_input and the stream setup succeed; openStream goes on to
\* the audio output, which it sets up or tears down on the owner thread
\* (lines 744 and 833) through a blocking queued call
DemuxOpenSucceeds ==
    /\ PFrame
    /\ wpc[D] = "opening"
    /\ opens < MaxOpens
    /\ opens' = opens + 1
    /\ wpc' = [wpc EXCEPT ![D] = "audioSetup"]
    /\ UNCHANGED <<running, m_stopRequested, m_stopInProgress,
                   m_shutdownFuture, m_maxReconnectAttempts,
                   m_reconnectDelayMs, sleepLeft, ctxHolder, joinable, cop,
                   cpc, cfut, tpc, qn, qclosed, vDropped, ctx, bitrate,
                   retryCount, statusLog, terminated, urlGiven, m_currentUrl,
                   m_audioPendingQueue, localQueue, offset, pumpPc,
                   sinkWritten, appended, audioSetup, conn, packet,
                   frameImage>>

\* line 298: retryCount = 0 after a successful open
\* (variant: the counter keeps its value)
CounterAfterOpen_Kept == retryCount

CounterAfterOpen == 0

\* what the audio part of openStream (lines 682-834) meets on this input
\* and this audio device: the audio decoder and resampler are set up
\* ("ok"), the input has no audio stream ("none"), avcodec_open2 fails
\* (690-695), the device gives no usable format (825-830), a channel
\* layout cannot be resolved (772-792), or the resampler cannot be
\* initialised (796-818)
AudioSetups ==
    {"ok", "none", "codecFails", "outputFails", "layoutFails", "resamplerFails"}

\* the outcomes after which openStream, having called setupAudioOutput
\* (line 744), calls teardownAudioOutput as well
TornDownAfterSetup == {"outputFails", "layoutFails", "resamplerFails"}

\* the outcomes at which openStream returns false (lines 780, 791, 817)
OpenReturnsFalse == {"layoutFails", "resamplerFails"}

\* lines 836-871 and 296-299: the contexts are published under
\* m_contextMutex, openStream returns true, demuxLoop emits "Playing" and
\* resets its counter
Published ==
    /\ MutexFree
    /\ ctx' = TRUE
    /\ conn' = opens
    /\ Emit("Playing")
    /\ retryCount' = CounterAfterOpen
    /\ wpc' = [wpc EXCEPT ![D] = "reading"]

\* the owner thread's event loop runs the queued setupAudioOutput (line 744)
\* or, without an audio decoder, teardownAudioOutput (line 833); openStream
\* then publishes the contexts, unless it has to tear the audio output down
\* again first
OwnerServesAudioSetup ==
    /\ PFrame
    /\ wpc[D] = "audioSetup"
    /\ cpc[Owner] = "idle"
    /\ IF audioSetup \in TornDownAfterSetup
       THEN /\ wpc' = [wpc EXCEPT ![D] = "audioTeardown"]
            /\ UNCHANGED <<ctx, conn, statusLog, retryCount>>
       ELSE Published
    /\ UNCHANGED <<running, m_stopRequested, m_stopInProgress,
                   m_shutdownFuture, m_maxReconnectAttempts,
                   m_reconnectDelayMs, sleepLeft, ctxHolder, joinable, cop,
                   cpc, cfut, tpc, qn, qclosed, vDropped, bitrate, opens,
                   terminated, urlGiven, m_currentUrl, m_audioPendingQueue,
                   localQueue, offset, pumpPc, sinkWritten, appended,
                   audioSetup, packet, frameImage>>

\* the owner thread runs the teardownAudioOutput queued at lines 779, 790,
\* 816 or 829; after a layout or resampler failure openStream returns false,
\* after a failure of the audio output it goes on without audio
OwnerServesAudioTeardown ==
    /\ PFrame
    /\ wpc[D] = "audioTeardown"
    /\ cpc[Owner] = "idle"
    /\ IF audioSetup \in OpenReturnsFalse
       THEN /\ wpc' = [wpc EXCEPT ![D] = "openFailed"]
            /\ UNCHANGED <<ctx, conn, statusLog, retryCount>>
       ELSE Published
    /\ UNCHANGED <<running, m_stopRequested, m_stopInProgress,
                   m_shutdownFuture, m_maxReconnectAttempts,
                   m_reconnectDelayMs, sleepLeft, ctxHolder, joinable, cop,
                   cpc, cfut, tpc, qn, qclosed, vDropped, bitrate, opens,
                   terminated, urlGiven, m_currentUrl, m_audioPendingQueue,
                   localQueue, offset, pumpPc, sinkWritten, appended,
                   audioSetup, packet, frameImage>>

\* line 280: the retry budget is used up
\* (variant: a limit of 0 is taken to mean no limit)
Exhausted_ZeroUnlimited(count) ==
    m_maxReconnectAttempts > 0 /\ count >= m_maxReconnectAttempts

\* (variant: the counter may pass the limit by one)
Exhausted_OneMore(count) ==
    m_maxReconnectAttempts >= 0 /\ count > m_maxReconnectAttempts

Exhausted(count) ==
    m_maxReconnectAttempts >= 0 /\ count >= m_maxReconnectAttempts

\* lines 290-292 and 378-380: delay = m_reconnectDelayMs.load();
\* if (delay > 0) sleep_for(delay): where the demuxer is next, and how much
\* of the sleep is ahead of it
AfterRetryStatus == IF m_reconnectDelayMs > 0 THEN "sleep" ELSE "top"

\* lines 274-293: what demuxLoop does with a failed open
DemuxOpenFailed ==
    /\ PFrame
    /\ wpc[D] = "openFailed"
    /\ IF ~running \/ m_stopRequested
       THEN /\ wpc' = [wpc EXCEPT ![D] = "done"]
            /\ UNCHANGED <<retryCount, statusLog, sleepLeft>>
       ELSE /\ retryCount' = retryCount + 1
            /\ IF Exhausted(retryCount')
               THEN /\ statusLog' = statusLog \o <<St("TerminalError"), St("Stopped")>>
                    /\ wpc' = [wpc EXCEPT ![D] = "termOpen"]
                    /\ UNCHANGED sleepLeft
               ELSE /\ statusLog' = Append(statusLog, StK("Retrying", retryCount'))
                    /\ wpc' = [wpc EXCEPT ![D] = AfterRetryStatus]
                    /\ sleepLeft' = m_reconnectDelayMs
    /\ UNCHANGED <<running, m_stopRequested, m_stopInProgress,
                   m_shutdownFuture, m_maxReconnectAttempts,
                   m_reconnectDelayMs, ctxHolder, joinable, cop, cpc, cfut,
                   tpc, qn, qclosed, vDropped, ctx, bitrate, opens,
                   terminated, urlGiven, m_currentUrl, m_audioPendingQueue,
                   localQueue, offset, pumpPc, sinkWritten, appended,
                   audioSetup, conn, packet, frameImage>>

\* lines 284-285 and 357-358: m_running.store(false),
\* m_stopRequested.store(true) after the terminal error
DemuxTermStores ==
    /\ PFrame
    /\ wpc[D] \in {"termOpen", "termPost"}
    /\ running' = FALSE
    /\ m_stopRequested' = TRUE
    /\ wpc' = [wpc EXCEPT ![D] = IF @ = "termOpen" THEN "done" ELSE "cleanup"]
    /\ UNCHANGED <<m_stopInProgress, m_shutdownFuture,
                   m_maxReconnectAttempts, m_reconnectDelayMs, sleepLeft,
                   ctxHolder, joinable, cop, cpc, cfut, tpc, qn, qclosed,
                   vDropped, ctx, bitrate, retryCount, opens, statusLog,
                   terminated, urlGiven, m_currentUrl, m_audioPendingQueue,
                   localQueue, offset, pumpPc, sinkWritten, appended,
                   audioSetup, conn, packet, frameImage>>

\* lines 292 and 380: one unit of the time of sleep_for(delay) passes and
\* more of it is left; the sleep is one call, which reads no flag
DemuxSleepTick ==
    /\ PFrame
    /\ wpc[D] = "sleep"
    /\ sleepLeft > 1
    /\ sleepLeft' = sleepLeft - 1
    /\ UNCHANGED <<running, m_stopRequested, m_stopInProgress,
                   m_shutdownFuture, m_maxReconnectAttempts,
                   m_reconnectDelayMs, ctxHolder, joinable, wpc, cop, cpc,
                   cfut, tpc, qn, qclosed, vDropped, ctx, bitrate,
                   retryCount, opens, statusLog, terminated, urlGiven,
                   m_currentUrl, m_audioPendingQueue, localQueue, offset,
                   pumpPc, sinkWritten, appended, audioSetup, conn, packet,
                   frameImage>>

\* lines 292 and 380: the last unit of the time of sleep_for(delay) passes,
\* the call returns, and the loop is at while (m_running) again
DemuxSleepEnds ==
    /\ PFrame
    /\ wpc[D] = "sleep"
    /\ sleepLeft <= 1
    /\ sleepLeft' = 0
    /\ wpc' = [wpc EXCEPT ![D] = "top"]
    /\ UNCHANGED <<running, m_stopRequested, m_stopInProgress,
                   m_shutdownFuture, m_maxReconnectAttempts,
                   m_reconnectDelayMs, ctxHolder, joinable, cop, cpc, cfut,
                   tpc, qn, qclosed, vDropped, ctx, bitrate, retryCount,
                   opens, statusLog, terminated, urlGiven, m_currentUrl,
                   m_audioPendingQueue, localQueue, offset, pumpPc,
                   sinkWritten, appended, audioSetup, conn, packet,
                   frameImage>>

\* lines 303 and 328-330: the demuxer, at while (m_running.load()) or inside
\* av_read_frame, finds m_running false and leaves the inner loop
DemuxInnerExit ==
    /\ PFrame
    /\ wpc[D] = "reading"
    /\ ~running
    /\ wpc' = [wpc EXCEPT ![D] = "post"]
    /\ UNCHANGED <<running, m_stopRequested, m_stopInProgress,
                   m_shutdownFuture, m_maxReconnectAttempts,
                   m_reconnectDelayMs, sleepLeft, ctxHolder, joinable, cop,
                   cpc, cfut, tpc, qn, qclosed, vDropped, ctx, bitrate,
                   retryCount, opens, statusLog, terminated, urlGiven,
                   m_currentUrl, m_audioPendingQueue, localQueue, offset,
                   pumpPc, sinkWritten, appended, audioSetup, conn, packet,
                   frameImage>>

\* lines 305-311, 335-342: a video packet is read and pushed (DropOldest:
\* never waits; false when the queue is closed); the bitrate is published
\* (its one-second window is taken as elapsed at each queued packet)
DemuxReadVideo ==
    /\ PFrame
    /\ wpc[D] = "reading"
    /\ running
    /\ IF qclosed["video"]
       THEN UNCHANGED <<qn, vDropped, bitrate, wpc>>
       ELSE /\ IF qn["video"] >= QueueCap
               THEN vDropped' = Min(vDropped + 1, MaxDropped) /\ UNCHANGED qn
               ELSE qn' = [qn EXCEPT !["video"] = @ + 1] /\ UNCHANGED vDropped
            /\ wpc' = WakePop(wpc, "video")
            /\ bitrate' = 1
    /\ UNCHANGED <<running, m_stopRequested, m_stopInProgress,
                   m_shutdownFuture, m_maxReconnectAttempts,
                   m_reconnectDelayMs, sleepLeft, ctxHolder, joinable, cop,
                   cpc, cfut, tpc, qclosed, ctx, retryCount, opens,
                   statusLog, terminated, urlGiven, m_currentUrl,
                   m_audioPendingQueue, localQueue, offset, pumpPc,
                   sinkWritten, appended, audioSetup, conn, packet,
                   frameImage>>

\* the Block push of packetqueue.cpp 56-63, 76-83, entered at the call and
\* again after a notification
BlockPush ==
    IF ~PushPred("audio")
    THEN wpc' = [wpc EXCEPT ![D] = "pushWait"] /\ UNCHANGED <<qn, bitrate>>
    ELSE IF qclosed["audio"] \/ ~running
    THEN wpc' = [wpc EXCEPT ![D] = "reading"] /\ UNCHANGED <<qn, bitrate>>
    ELSE /\ qn' = [qn EXCEPT !["audio"] = @ + 1]
         /\ wpc' = WakePop([wpc EXCEPT ![D] = "reading"], "audio")
         /\ bitrate' = 1

\* lines 305-314: an audio packet is read and pushed
DemuxReadAudio ==
    /\ PFrame
    /\ wpc[D] = "reading"
    /\ running
    /\ BlockPush
    /\ UNCHANGED <<running, m_stopRequested, m_stopInProgress,
                   m_shutdownFuture, m_maxReconnectAttempts,
                   m_reconnectDelayMs, sleepLeft, ctxHolder, joinable, cop,
                   cpc, cfut, tpc, qclosed, vDropped, ctx, retryCount, opens,
                   statusLog, terminated, urlGiven, m_currentUrl,
                   m_audioPendingQueue, localQueue, offset, pumpPc,
                   sinkWritten, appended, audioSetup, conn, packet,
                   frameImage>>

\* the demuxer, notified while waiting in push, re-evaluates the predicate
DemuxPushWoke ==
    /\ PFrame
    /\ wpc[D] = "pushWoke"
    /\ BlockPush
    /\ UNCHANGED <<running, m_stopRequested, m_stopInProgress,
                   m_shutdownFuture, m_maxReconnectAttempts,
                   m_reconnectDelayMs, sleepLeft, ctxHolder, joinable, cop,
                   cpc, cfut, tpc, qclosed, vDropped, ctx, retryCount, opens,
                   statusLog, terminated, urlGiven, m_currentUrl,
                   m_audioPendingQueue, localQueue, offset, pumpPc,
                   sinkWritten, appended, audioSetup, conn, packet,
                   frameImage>>

\* (variant: the read error is not reported)
DemuxReadError_Silent ==
    /\ PFrame
    /\ wpc[D] = "reading"
    /\ running
    /\ wpc' = [wpc EXCEPT ![D] = "post"]
    /\ UNCHANGED <<running, m_stopRequested, m_stopInProgress,
                   m_shutdownFuture, m_maxReconnectAttempts,
                   m_reconnectDelayMs, sleepLeft, ctxHolder, joinable, cop,
                   cpc, cfut, tpc, qn, qclosed, vDropped, ctx, bitrate,
                   retryCount, opens, statusLog, terminated, urlGiven,
                   m_currentUrl, m_audioPendingQueue, localQueue, offset,
                   pumpPc, sinkWritten, appended, audioSetup, conn, packet,
                   frameImage>>

\* lines 326-333: av_read_frame fails (end of stream, timeout, or the
\* interrupt callback) while m_running is true
DemuxReadError ==
    /\ PFrame
    /\ wpc[D] = "reading"
    /\ running
    /\ Emit("Connection lost")
    /\ wpc' = [wpc EXCEPT ![D] = "post"]
    /\ UNCHANGED <<running, m_stopRequested, m_stopInProgress,
                   m_shutdownFuture, m_maxReconnectAttempts,
                   m_reconnectDelayMs, sleepLeft, ctxHolder, joinable, cop,
                   cpc, cfut, tpc, qn, qclosed, vDropped, ctx, bitrate,
                   retryCount, opens, terminated, urlGiven, m_currentUrl,
                   m_audioPendingQueue, localQueue, offset, pumpPc,
                   sinkWritten, appended, audioSetup, conn, packet,
                   frameImage>>

\* line 346
DemuxPost ==
    /\ PFrame
    /\ wpc[D] = "post"
    /\ wpc' = [wpc EXCEPT ![D] = IF ~running \/ m_stopRequested THEN "done" ELSE "count"]
    /\ UNCHANGED <<running, m_stopRequested, m_stopInProgress,
                   m_shutdownFuture, m_maxReconnectAttempts,
                   m_reconnectDelayMs, sleepLeft, ctxHolder, joinable, cop,
                   cpc, cfut, tpc, qn, qclosed, vDropped, ctx, bitrate,
                   retryCount, opens, statusLog, terminated, urlGiven,
                   m_currentUrl, m_audioPendingQueue, localQueue, offset,
                   pumpPc, sinkWritten, appended, audioSetup, conn, packet,
                   frameImage>>

\* lines 351-356: the disconnect counts as an attempt
DemuxCount ==
    /\ PFrame
    /\ wpc[D] = "count"
    /\ IF running /\ ~m_stopRequested
       THEN /\ retryCount' = retryCount + 1
            /\ IF Exhausted(retryCount')
               THEN /\ statusLog' = statusLog \o <<St("TerminalError"), St("Stopped")>>
                    /\ wpc' = [wpc EXCEPT ![D] = "termPost"]
               ELSE /\ wpc' = [wpc EXCEPT ![D] = "cleanup"]
                    /\ UNCHANGED statusLog
       ELSE /\ wpc' = [wpc EXCEPT ![D] = "cleanup"]
            /\ UNCHANGED <<retryCount, statusLog>>
    /\ UNCHANGED <<running, m_stopRequested, m_stopInProgress,
                   m_shutdownFuture, m_maxReconnectAttempts,
                   m_reconnectDelayMs, sleepLeft, ctxHolder, joinable, cop,
                   cpc, cfut, tpc, qn, qclosed, vDropped, ctx, bitrate,
                   opens, terminated, urlGiven, m_currentUrl,
                   m_audioPendingQueue, localQueue, offset, pumpPc,
                   sinkWritten, appended, audioSetup, conn, packet,
                   frameImage>>

\* lines 363-364: close both queues
DemuxCloseQueues ==
    /\ PFrame
    /\ wpc[D] = "cleanup"
    /\ qclosed' = [q \in Decoders |-> TRUE]
    /\ wpc' = CloseBoth([wpc EXCEPT ![D] = "clear"])
    /\ UNCHANGED <<running, m_stopRequested, m_stopInProgress,
                   m_shutdownFuture, m_maxReconnectAttempts,
                   m_reconnectDelayMs, sleepLeft, ctxHolder, joinable, cop,
                   cpc, cfut, tpc, qn, vDropped, ctx, bitrate, retryCount,
                   opens, statusLog, terminated, urlGiven, m_currentUrl,
                   m_audioPendingQueue, localQueue, offset, pumpPc,
                   sinkWritten, appended, audioSetup, conn, packet,
                   frameImage>>

\* line 365: clearQueues
DemuxClearQueues ==
    /\ PFrame
    /\ wpc[D] = "clear"
    /\ qn' = [q \in Decoders |-> 0]
    /\ wpc' = [wpc EXCEPT ![D] = "closeStream"]
    /\ UNCHANGED <<running, m_stopRequested, m_stopInProgress,
                   m_shutdownFuture, m_maxReconnectAttempts,
                   m_reconnectDelayMs, sleepLeft, ctxHolder, joinable, cop,
                   cpc, cfut, tpc, qclosed, vDropped, ctx, bitrate,
                   retryCount, opens, statusLog, terminated, urlGiven,
                   m_currentUrl, m_audioPendingQueue, localQueue, offset,
                   pumpPc, sinkWritten, appended, audioSetup, conn, packet,
                   frameImage>>

\* line 366: closeStream, under m_contextMutex
DemuxCloseStream ==
    /\ PFrame
    /\ wpc[D] = "closeStream"
    /\ MutexFree
    /\ ctx' = FALSE
    /\ wpc' = [wpc EXCEPT ![D] = "check"]
    /\ UNCHANGED <<running, m_stopRequested, m_stopInProgress,
                   m_shutdownFuture, m_maxReconnectAttempts,
                   m_reconnectDelayMs, sleepLeft, ctxHolder, joinable, cop,
                   cpc, cfut, tpc, qn, qclosed, vDropped, bitrate,
                   retryCount, opens, statusLog, terminated, urlGiven,
                   m_currentUrl, m_audioPendingQueue, localQueue, offset,
                   pumpPc, sinkWritten, appended, audioSetup, conn, packet,
                   frameImage>>

\* line 368
DemuxCheck ==
    /\ PFrame
    /\ wpc[D] = "check"
    /\ wpc' = [wpc EXCEPT ![D] = IF ~running \/ m_stopRequested THEN "done" ELSE "reopen"]
    /\ UNCHANGED <<running, m_stopRequested, m_stopInProgress,
                   m_shutdownFuture, m_maxReconnectAttempts,
                   m_reconnectDelayMs, sleepLeft, ctxHolder, joinable, cop,
                   cpc, cfut, tpc, qn, qclosed, vDropped, ctx, bitrate,
                   retryCount, opens, statusLog, terminated, urlGiven,
                   m_currentUrl, m_audioPendingQueue, localQueue, offset,
                   pumpPc, sinkWritten, appended, audioSetup, conn, packet,
                   frameImage>>

\* m_videoQueue.open(); m_audioQueue.open(): neither queue is closed
\* (variant: open() is left out)
OpenQueues_Skipped == qclosed

OpenQueues == [q \in Decoders |-> FALSE]

\* lines 372-381: open both queues, then emit "Retrying connection (k/N)" and
\* sleep if m_running is still true
DemuxReopenQueues ==
    /\ PFrame
    /\ wpc[D] = "reopen"
    /\ qclosed' = OpenQueues
    /\ IF running
       THEN /\ statusLog' = Append(statusLog,
                   StK("Retrying", Min(retryCount, m_maxReconnectAttempts)))
            /\ wpc' = [wpc EXCEPT ![D] = AfterRetryStatus]
            /\ sleepLeft' = m_reconnectDelayMs
       ELSE /\ wpc' = [wpc EXCEPT ![D] = "top"]
            /\ UNCHANGED <<statusLog, sleepLeft>>
    /\ UNCHANGED <<running, m_stopRequested, m_stopInProgress,
                   m_shutdownFuture, m_maxReconnectAttempts,
                   m_reconnectDelayMs, ctxHolder, joinable, cop, cpc, cfut,
                   tpc, qn, vDropped, ctx, bitrate, retryCount, opens,
                   terminated, urlGiven, m_currentUrl, m_audioPendingQueue,
                   localQueue, offset, pumpPc, sinkWritten, appended,
                   audioSetup, conn, packet, frameImage>>

\* ---- videoDecodeLoop / audioDecodeLoop ----
\* PacketQueue::pop (packetqueue.cpp 92-106) as called at lines 417 and 492,
\* and lines 418-423: what the loop does when pop returns false.  The queue
\* holds packets of the connection that was opened last: the demuxer
\* clears it before it opens the next one
PopStep(w) ==
    IF ~PopPred(QueueOf(w))
    THEN wpc' = [wpc EXCEPT ![w] = "popWait"] /\ UNCHANGED <<qn, packet>>
    ELSE IF qn[QueueOf(w)] = 0
    THEN /\ wpc' = [wpc EXCEPT ![w] = IF ~running THEN "done" ELSE "top"]
         /\ UNCHANGED <<qn, packet>>
    ELSE /\ qn' = [qn EXCEPT ![QueueOf(w)] = @ - 1]
         /\ packet' = [packet EXCEPT ![w] = conn]
         /\ wpc' = WakePush([wpc EXCEPT ![w] = "decode"], QueueOf(w))

\* lines 415-417 / 490-492: while (m_running), then pop
DecoderTop(w) ==
    /\ PFrame
    /\ wpc[w] = "top"
    /\ IF running THEN PopStep(w)
       ELSE wpc' = [wpc EXCEPT ![w] = "done"] /\ UNCHANGED <<qn, packet>>
    /\ UNCHANGED <<running, m_stopRequested, m_stopInProgress,
                   m_shutdownFuture, m_maxReconnectAttempts,
                   m_reconnectDelayMs, sleepLeft, ctxHolder, joinable, cop,
                   cpc, cfut, tpc, qclosed, vDropped, ctx, bitrate,
                   retryCount, opens, statusLog, terminated, urlGiven,
                   m_currentUrl, m_audioPendingQueue, localQueue, offset,
                   pumpPc, sinkWritten, appended, audioSetup, conn,
                   frameImage>>

\* the decoder, notified while waiting in pop, re-evaluates the predicate
DecoderPopWoke(w) ==
    /\ PFrame
    /\ wpc[w] = "popWoke"
    /\ PopStep(w)
    /\ UNCHANGED <<running, m_stopRequested, m_stopInProgress,
                   m_shutdownFuture, m_maxReconnectAttempts,
                   m_reconnectDelayMs, sleepLeft, ctxHolder, joinable, cop,
                   cpc, cfut, tpc, qclosed, vDropped, ctx, bitrate,
                   retryCount, opens, statusLog, terminated, urlGiven,
                   m_currentUrl, m_audioPendingQueue, localQueue, offset,
                   pumpPc, sinkWritten, appended, audioSetup, conn,
                   frameImage>>

\* lines 428-432 / 503-507: the lock_guard is constructed
\* (variant: the decode loop does not take the mutex)
TakeContextMutex_Not(w) == ctxHolder

TakeContextMutex(w) == w

\* line 477 / 568: the lock_guard's scope ends
\* (variant: the mutex is kept)
ReleaseContextMutex_Not(w) == ctxHolder

ReleaseContextMutex(w) == IF ctxHolder = w THEN NoThread ELSE ctxHolder

\* a frame (or a block of samples) of the popped packet reaches the sink:
\* the contexts existed when the decoder took m_contextMutex (lines
\* 428-476, 503-567)
Delivers(w) == wpc[w] = "using"

\* lines 429 / 504: the contexts this decode loop needs are there; the
\* audio loop needs the audio decoder and the resampler, which openStream
\* creates only when the whole audio setup succeeds
HasContexts(w) == ctx /\ (w = "audio" => audioSetup = "ok")

\* av_packet_unref(&packet), lines 430, 439 / 505, 514
ReleasePacket(w) == [packet EXCEPT ![w] = NoPacket]

\* lines 443-472: of the k frames the decoder has ready for the packet,
\* the video loop converts the first and leaves the loop
\* (variant: it hands on every frame)
FramesTaken_All(k) == k

FramesTaken(k) == IF k > 0 THEN 1 ELSE 0

\* lines 426-436 / 501-511: the decoder takes m_contextMutex; if a context
\* is missing it releases the packet and the mutex and continues, else it
\* goes on to avcodec_send_packet with the mutex held
DecoderLock(w) ==
    /\ PFrame
    /\ wpc[w] = "decode"
    /\ MutexFree
    /\ IF HasContexts(w)
       THEN /\ ctxHolder' = TakeContextMutex(w)
            /\ wpc' = [wpc EXCEPT ![w] = "using"]
            /\ UNCHANGED packet
       ELSE /\ wpc' = [wpc EXCEPT ![w] = "top"]
            /\ packet' = ReleasePacket(w)
            /\ UNCHANGED ctxHolder
    /\ UNCHANGED <<running, m_stopRequested, m_stopInProgress,
                   m_shutdownFuture, m_maxReconnectAttempts,
                   m_reconnectDelayMs, sleepLeft, joinable, cop, cpc, cfut,
                   tpc, qn, qclosed, vDropped, ctx, bitrate, retryCount,
                   opens, statusLog, terminated, urlGiven, m_currentUrl,
                   m_audioPendingQueue, localQueue, offset, pumpPc,
                   sinkWritten, appended, audioSetup, conn, frameImage>>

\* lines 438-477 / 513-568: avcodec_send_packet, the release of the packet,
\* avcodec_receive_frame and the conversion through the scaler or resampler,
\* then the end of the lock_guard's scope.  The decoder has k frames ready
\* for the packet (none when avcodec_send_packet fails, when it needs more
\* input, or when m_running is false).  The video loop keeps the image it
\* goes on to emit; the samples of the audio loop are what EmitAudioSamples
\* appends
DecoderDecode(w, k) ==
    /\ PFrame
    /\ wpc[w] = "using"
    /\ w = "audio" => k = 0
    /\ ctxHolder' = ReleaseContextMutex(w)
    /\ packet' = ReleasePacket(w)
    /\ frameImage' = IF w = "video" THEN FramesTaken(k) ELSE frameImage
    /\ wpc' = [wpc EXCEPT ![w] =
                IF w = "video" /\ FramesTaken(k) > 0 THEN "emit" ELSE "top"]
    /\ UNCHANGED <<running, m_stopRequested, m_stopInProgress,
                   m_shutdownFuture, m_maxReconnectAttempts,
                   m_reconnectDelayMs, sleepLeft, joinable, cop, cpc, cfut,
                   tpc, qn, qclosed, vDropped, ctx, bitrate, retryCount,
                   opens, statusLog, terminated, urlGiven, m_currentUrl,
                   m_audioPendingQueue, localQueue, offset, pumpPc,
                   sinkWritten, appended, audioSetup, conn>>

\* lines 476-478: if (!frameImage.isNull()) emit frameReady(frameImage), and
\* the iteration ends
DecoderEmit ==
    /\ PFrame
    /\ wpc["video"] = "emit"
    /\ frameImage' = 0
    /\ wpc' = [wpc EXCEPT !["video"] = "top"]
    /\ UNCHANGED <<running, m_stopRequested, m_stopInProgress,
                   m_shutdownFuture, m_maxReconnectAttempts,
                   m_reconnectDelayMs, sleepLeft, ctxHolder, joinable, cop,
                   cpc, cfut, tpc, qn, qclosed, vDropped, ctx, bitrate,
                   retryCount, opens, statusLog, terminated, urlGiven,
                   m_currentUrl, m_audioPendingQueue, localQueue, offset,
                   pumpPc, sinkWritten, appended, audioSetup, conn, packet>>

\* ---- stopInternal, run by the task std::async launched (lines 184-187) ----

\* lines 200-201
TaskFlags(t) ==
    /\ PFrame
    /\ tpc[t] = "start"
    /\ running' = FALSE
    /\ m_stopRequested' = TRUE
    /\ tpc' = [tpc EXCEPT ![t] = "close"]
    /\ UNCHANGED <<m_stopInProgress, m_shutdownFuture,
                   m_maxReconnectAttempts, m_reconnectDelayMs, sleepLeft,
                   ctxHolder, joinable, wpc, cop, cpc, cfut, qn, qclosed,
                   vDropped, ctx, bitrate, retryCount, opens, statusLog,
                   terminated, urlGiven, m_currentUrl, m_audioPendingQueue,
                   localQueue, offset, pumpPc, sinkWritten, appended,
                   audioSetup, conn, packet, frameImage>>

\* lines 203-204
TaskClose(t) ==
    /\ PFrame
    /\ tpc[t] = "close"
    /\ qclosed' = [q \in Decoders |-> TRUE]
    /\ wpc' = CloseBoth(wpc)
    /\ tpc' = [tpc EXCEPT ![t] = "join"]
    /\ UNCHANGED <<running, m_stopRequested, m_stopInProgress,
                   m_shutdownFuture, m_maxReconnectAttempts,
                   m_reconnectDelayMs, sleepLeft, ctxHolder, joinable, cop,
                   cpc, cfut, qn, vDropped, ctx, bitrate, retryCount, opens,
                   statusLog, terminated, urlGiven, m_currentUrl,
                   m_audioPendingQueue, localQueue, offset, pumpPc,
                   sinkWritten, appended, audioSetup, conn, packet,
                   frameImage>>

\* std::thread::join returns when the thread's function has returned
CanJoin(w) == wpc[w] = "done"

\* lines 206-214: join the three threads that are joinable
TaskJoin(t) ==
    /\ PFrame
    /\ tpc[t] = "join"
    /\ \A w \in Workers : joinable[w] => CanJoin(w)
    /\ joinable' = [w \in Workers |-> FALSE]
    /\ tpc' = [tpc EXCEPT ![t] = "cleanup"]
    /\ UNCHANGED <<running, m_stopRequested, m_stopInProgress,
                   m_shutdownFuture, m_maxReconnectAttempts,
                   m_reconnectDelayMs, sleepLeft, ctxHolder, wpc, cop, cpc,
                   cfut, qn, qclosed, vDropped, ctx, bitrate, retryCount,
                   opens, statusLog, terminated, urlGiven, m_currentUrl,
                   m_audioPendingQueue, localQueue, offset, pumpPc,
                   sinkWritten, appended, audioSetup, conn, packet,
                   frameImage>>

\* lines 216-226: clearQueues, closeStream (under m_contextMutex), pending
\* audio cleared, bitrate 0
TaskCleanup(t) ==
    /\ PFrame
    /\ tpc[t] = "cleanup"
    /\ MutexFree
    /\ qn' = [q \in Decoders |-> 0]
    /\ wpc' = WakePush(wpc, "audio")
    /\ ctx' = FALSE
    /\ m_audioPendingQueue' = <<>>
    /\ bitrate' = 0
    /\ tpc' = [tpc EXCEPT ![t] = "teardown"]
    /\ UNCHANGED <<running, m_stopRequested, m_stopInProgress,
                   m_shutdownFuture, m_maxReconnectAttempts,
                   m_reconnectDelayMs, sleepLeft, ctxHolder, joinable, cop,
                   cpc, cfut, qclosed, vDropped, retryCount, opens,
                   statusLog, terminated, urlGiven, m_currentUrl, localQueue,
                   offset, pumpPc, sinkWritten, appended, audioSetup, conn,
                   packet, frameImage>>

\* lines 228-234: the task is never the owner thread, so teardownAudioOutput
\* is a blocking queued call that the owner thread's event loop runs
OwnerServesTeardown(t) ==
    /\ PFrame
    /\ tpc[t] = "teardown"
    /\ cpc[Owner] = "idle"
    /\ tpc' = [tpc EXCEPT ![t] = "finish"]
    /\ UNCHANGED <<running, m_stopRequested, m_stopInProgress,
                   m_shutdownFuture, m_maxReconnectAttempts,
                   m_reconnectDelayMs, sleepLeft, ctxHolder, joinable, wpc,
                   cop, cpc, cfut, qn, qclosed, vDropped, ctx, bitrate,
                   retryCount, opens, statusLog, terminated, urlGiven,
                   m_currentUrl, m_audioPendingQueue, localQueue, offset,
                   pumpPc, sinkWritten, appended, audioSetup, conn, packet,
                   frameImage>>

\* line 236 and line 186: emit "Stopped", m_stopInProgress.store(false);
\* the task's future becomes ready
TaskFinish(t) ==
    /\ PFrame
    /\ tpc[t] = "finish"
    /\ Emit("Stopped")
    /\ m_stopInProgress' = FALSE
    /\ tpc' = [tpc EXCEPT ![t] = "done"]
    /\ UNCHANGED <<running, m_stopRequested, m_shutdownFuture,
                   m_maxReconnectAttempts, m_reconnectDelayMs, sleepLeft,
                   ctxHolder, joinable, wpc, cop, cpc, cfut, qn, qclosed,
                   vDropped, ctx, bitrate, retryCount, opens, terminated,
                   urlGiven, m_currentUrl, m_audioPendingQueue, localQueue,
                   offset, pumpPc, sinkWritten, appended, audioSetup, conn,
                   packet, frameImage>>

\* ---- stop(), waitForShutdownCompletion(), start() ----
\* a future is ready when its task has run to completion
Ready(f) == tpc[f] \in {"done", "none"}

InStart(c) == cop[c] \in {"start", "startOverlapped"}

\* stop() returns: into start() when start() called it (line 143 is next),
\* else to the caller
AfterStop(c) == IF InStart(c) THEN "waitCopy" ELSE "returned"

\* the call of stop() has returned: at line 172 (the quick exit), or at
\* line 180 or 198
HasReturned(c) == cpc[c] \in {"returned", "returnedAtOnce"}

\* lines 168-173: the quick exit of stop()
\* (variant: stop() has no quick exit)
NothingToStop_Never == FALSE

NothingToStop == ~running /\ \A w \in Workers : ~joinable[w]

\* history kept in cop: a start() that a stop() of another thread
\* overlaps is marked
MarkOverlap(f, c) ==
    [c2 \in Callers |-> IF c2 # c /\ f[c2] = "start" THEN "startOverlapped" ELSE f[c2]]

\* a caller enters stop() (lines 166-173)
StopCall(c) ==
    /\ PFrame
    /\ cpc[c] = "idle"
    /\ IF NothingToStop
       THEN /\ cop' = [cop EXCEPT ![c] = "stop"]
            /\ cpc' = [cpc EXCEPT ![c] = "returnedAtOnce"]
       ELSE /\ cop' = MarkOverlap([cop EXCEPT ![c] = "stop"], c)
            /\ cpc' = [cpc EXCEPT ![c] = "xchg"]
    /\ UNCHANGED <<running, m_stopRequested, m_stopInProgress,
                   m_shutdownFuture, m_maxReconnectAttempts,
                   m_reconnectDelayMs, sleepLeft, ctxHolder, joinable, wpc,
                   cfut, tpc, qn, qclosed, vDropped, ctx, bitrate,
                   retryCount, opens, statusLog, terminated, urlGiven,
                   m_currentUrl, m_audioPendingQueue, localQueue, offset,
                   pumpPc, sinkWritten, appended, audioSetup, conn, packet,
                   frameImage>>

\* the shutdown tasks no published or held future refers to
FreeTasks ==
    {t \in Tasks : /\ tpc[t] \in {"none", "done"}
                   /\ t # m_shutdownFuture
                   /\ \A c \in Callers : cfut[c] # t}

\* m_stopInProgress.exchange(true) found the flag set: the caller does not
\* launch a shutdown
\* (variant: the flag is not consulted)
AlreadyStopping_Ignored == FALSE

AlreadyStopping == m_stopInProgress

\* lines 176-187: m_stopInProgress.exchange(true); the caller that finds it
\* set returns (owner thread) or goes to wait for the published future; the
\* caller that sets it launches the shutdown task
StopExchange(c) ==
    /\ PFrame
    /\ cpc[c] = "xchg"
    /\ m_stopInProgress' = TRUE
    /\ IF AlreadyStopping
       THEN /\ cpc' = [cpc EXCEPT ![c] = IF c = Owner THEN AfterStop(c) ELSE "waitCopyInStop"]
            /\ UNCHANGED <<cfut, tpc>>
       ELSE /\ FreeTasks # {}
            /\ LET t == CHOOSE x \in FreeTasks : \A y \in FreeTasks : x <= y
               IN /\ tpc' = [tpc EXCEPT ![t] = "start"]
                  /\ cfut' = [cfut EXCEPT ![c] = t]
            /\ cpc' = [cpc EXCEPT ![c] = "publish"]
    /\ UNCHANGED <<running, m_stopRequested, m_shutdownFuture,
                   m_maxReconnectAttempts, m_reconnectDelayMs, sleepLeft,
                   ctxHolder, joinable, wpc, cop, qn, qclosed, vDropped, ctx,
                   bitrate, retryCount, opens, statusLog, terminated,
                   urlGiven, m_currentUrl, m_audioPendingQueue, localQueue,
                   offset, pumpPc, sinkWritten, appended, audioSetup, conn,
                   packet, frameImage>>

\* lines 189-197: publish the future under m_shutdownMutex; a caller that
\* is not the owner thread then waits for the task
StopPublish(c) ==
    /\ PFrame
    /\ cpc[c] = "publish"
    /\ m_shutdownFuture' = cfut[c]
    /\ IF c = Owner
       THEN /\ cpc' = [cpc EXCEPT ![c] = AfterStop(c)]
            /\ cfut' = [cfut EXCEPT ![c] = NoFuture]
       ELSE /\ cpc' = [cpc EXCEPT ![c] = "waitTaskInStop"]
            /\ UNCHANGED cfut
    /\ UNCHANGED <<running, m_stopRequested, m_stopInProgress,
                   m_maxReconnectAttempts, m_reconnectDelayMs, sleepLeft,
                   ctxHolder, joinable, wpc, cop, tpc, qn, qclosed, vDropped,
                   ctx, bitrate, retryCount, opens, statusLog, terminated,
                   urlGiven, m_currentUrl, m_audioPendingQueue, localQueue,
                   offset, pumpPc, sinkWritten, appended, audioSetup, conn,
                   packet, frameImage>>

\* where a caller is after waitForShutdownCompletion, or the wait at line
\* 196, returns
AfterWait(c) ==
    IF cpc[c] \in {"waitCopyInStop", "waitTaskInStop"} THEN AfterStop(c) ELSE "init"

\* lines 241-248: waitForShutdownCompletion copies m_shutdownFuture under
\* m_shutdownMutex; an invalid future is not waited for
WaitCopy(c) ==
    /\ PFrame
    /\ cpc[c] \in {"waitCopyInStop", "waitCopy"}
    /\ IF m_shutdownFuture = NoFuture
       THEN /\ cpc' = [cpc EXCEPT ![c] = AfterWait(c)]
            /\ UNCHANGED cfut
       ELSE /\ cfut' = [cfut EXCEPT ![c] = m_shutdownFuture]
            /\ cpc' = [cpc EXCEPT ![c] = IF @ = "waitCopy" THEN "waitTask" ELSE "waitTaskInStop"]
    /\ UNCHANGED <<running, m_stopRequested, m_stopInProgress,
                   m_shutdownFuture, m_maxReconnectAttempts,
                   m_reconnectDelayMs, sleepLeft, ctxHolder, joinable, wpc,
                   cop, tpc, qn, qclosed, vDropped, ctx, bitrate, retryCount,
                   opens, statusLog, terminated, urlGiven, m_currentUrl,
                   m_audioPendingQueue, localQueue, offset, pumpPc,
                   sinkWritten, appended, audioSetup, conn, packet,
                   frameImage>>

\* lines 196 and 247: future.wait() returns when the task has completed
WaitTask(c) ==
    /\ PFrame
    /\ cpc[c] \in {"waitTaskInStop", "waitTask"}
    /\ Ready(cfut[c])
    /\ cpc' = [cpc EXCEPT ![c] = AfterWait(c)]
    /\ cfut' = [cfut EXCEPT ![c] = NoFuture]
    /\ UNCHANGED <<running, m_stopRequested, m_stopInProgress,
                   m_shutdownFuture, m_maxReconnectAttempts,
                   m_reconnectDelayMs, sleepLeft, ctxHolder, joinable, wpc,
                   cop, tpc, qn, qclosed, vDropped, ctx, bitrate, retryCount,
                   opens, statusLog, terminated, urlGiven, m_currentUrl,
                   m_audioPendingQueue, localQueue, offset, pumpPc,
                   sinkWritten, appended, audioSetup, conn, packet,
                   frameImage>>

\* the caller goes on after its call of stop() or start("") has returned
CallReturned(c) ==
    /\ PFrame
    /\ HasReturned(c)
    /\ cpc' = [cpc EXCEPT ![c] = "idle"]
    /\ cop' = [cop EXCEPT ![c] = "none"]
    /\ UNCHANGED <<running, m_stopRequested, m_stopInProgress,
                   m_shutdownFuture, m_maxReconnectAttempts,
                   m_reconnectDelayMs, sleepLeft, ctxHolder, joinable, wpc,
                   cfut, tpc, qn, qclosed, vDropped, ctx, bitrate,
                   retryCount, opens, statusLog, terminated, urlGiven,
                   m_currentUrl, m_audioPendingQueue, localQueue, offset,
                   pumpPc, sinkWritten, appended, audioSetup, conn, packet,
                   frameImage>>

\* (variant: the URL is tested after the call of stop())
StartEmpty_StopsFirst(c) ==
    /\ PFrame
    /\ cpc[c] = "idle"
    /\ cop' = [cop EXCEPT ![c] = "startEmpty"]
    /\ cpc' = [cpc EXCEPT ![c] = IF NothingToStop THEN "returned" ELSE "xchg"]
    /\ UNCHANGED <<running, m_stopRequested, m_stopInProgress,
                   m_shutdownFuture, m_maxReconnectAttempts,
                   m_reconnectDelayMs, sleepLeft, ctxHolder, joinable, wpc,
                   cfut, tpc, qn, qclosed, vDropped, ctx, bitrate,
                   retryCount, opens, statusLog, terminated, urlGiven,
                   m_currentUrl, m_audioPendingQueue, localQueue, offset,
                   pumpPc, sinkWritten, appended, audioSetup, conn, packet,
                   frameImage>>

\* start("") (lines 137-140): errorOccurred("Stream URL is empty."), return
StartEmpty(c) ==
    /\ PFrame
    /\ cpc[c] = "idle"
    /\ cop' = [cop EXCEPT ![c] = "startEmpty"]
    /\ cpc' = [cpc EXCEPT ![c] = "returned"]
    /\ UNCHANGED <<running, m_stopRequested, m_stopInProgress,
                   m_shutdownFuture, m_maxReconnectAttempts,
                   m_reconnectDelayMs, sleepLeft, ctxHolder, joinable, wpc,
                   cfut, tpc, qn, qclosed, vDropped, ctx, bitrate,
                   retryCount, opens, statusLog, terminated, urlGiven,
                   m_currentUrl, m_audioPendingQueue, localQueue, offset,
                   pumpPc, sinkWritten, appended, audioSetup, conn, packet,
                   frameImage>>

\* start(url), url not empty, line 142: the call of stop() up to its quick
\* exit
StartCall(c) ==
    /\ PFrame
    /\ cpc[c] = "idle"
    /\ cop' = [cop EXCEPT ![c] = IF \E c2 \in Callers \ {c} : cop[c2] \in {"stop", "stopStale"} /\ ~HasReturned(c2)
                                 THEN "startOverlapped" ELSE "start"]
    /\ cpc' = [cpc EXCEPT ![c] = IF NothingToStop THEN "waitCopy" ELSE "xchg"]
    /\ UNCHANGED <<running, m_stopRequested, m_stopInProgress,
                   m_shutdownFuture, m_maxReconnectAttempts,
                   m_reconnectDelayMs, sleepLeft, ctxHolder, joinable, wpc,
                   cfut, tpc, qn, qclosed, vDropped, ctx, bitrate,
                   retryCount, opens, statusLog, terminated, urlGiven,
                   m_currentUrl, m_audioPendingQueue, localQueue, offset,
                   pumpPc, sinkWritten, appended, audioSetup, conn, packet,
                   frameImage>>

\* ---- sanitizeInputUrl (lines 1103-1128) ----
\* QString::toLower of a scheme
SchemeLower(s) == IF s = "RTMP" THEN "rtmp" ELSE s

\* QUrlQuery::hasQueryItem
HasQueryItem(q, key) == \E i \in 1..Len(q) : q[i] = key

\* QUrlQuery::removeQueryItem: of several items with the key, the first in
\* the order of the query is removed
RemoveQueryItem(q, key) ==
    IF ~HasQueryItem(q, key) THEN q
    ELSE LET i == CHOOSE k \in 1..Len(q) :
                    q[k] = key /\ \A j \in 1..(k - 1) : q[j] # key
         IN SubSeq(q, 1, i - 1) \o SubSeq(q, i + 1, Len(q))

\* the URL comes back as given unless an item was removed; then it is
\* QUrl::toString of the parsed URL, whose scheme QUrl keeps in lower case
sanitizeInputUrl(url) ==
    LET scheme == SchemeLower(url.scheme)
        hasListen == HasQueryItem(url.query, "listen")
        q1 == IF hasListen THEN RemoveQueryItem(url.query, "listen")
              ELSE url.query
        hasTimeout == HasQueryItem(q1, "listen_timeout")
        q2 == IF hasTimeout THEN RemoveQueryItem(q1, "listen_timeout") ELSE q1
        changed == hasListen \/ hasTimeout
    IN IF scheme \in {"rtmp", "tcp"} /\ changed
       THEN [scheme |-> scheme, query |-> q2]
       ELSE url

\* lines 145-156: the URL is stored, the queues are cleared and opened, the
\* dropped counter and the flags are reset, "Connecting" is emitted.
\* History: the callers inside stop() are marked, the completed shutdowns
\* and the session's count of opens are forgotten
StartInit(c) ==
    /\ PFrame
    /\ cpc[c] = "init"
    /\ m_currentUrl' = sanitizeInputUrl(urlGiven)
    /\ qn' = [q \in Decoders |-> 0]
    /\ vDropped' = ResetDroppedCount
    /\ qclosed' = OpenQueues
    /\ wpc' = WakePush(wpc, "audio")
    /\ m_stopRequested' = FALSE
    /\ running' = TRUE
    /\ bitrate' = 0
    /\ statusLog' = <<St("Connecting")>>
    /\ opens' = 0
    /\ conn' = 0
    /\ tpc' = [t \in Tasks |-> IF tpc[t] = "done" THEN "none" ELSE tpc[t]]
    /\ cop' = [c2 \in Callers |-> IF cop[c2] = "stop" THEN "stopStale" ELSE cop[c2]]
    /\ cpc' = [cpc EXCEPT ![c] = "spawn"]
    /\ UNCHANGED <<m_stopInProgress, m_shutdownFuture,
                   m_maxReconnectAttempts, m_reconnectDelayMs, sleepLeft,
                   ctxHolder, joinable, cfut, ctx, retryCount, terminated,
                   urlGiven, m_audioPendingQueue, localQueue, offset, pumpPc,
                   sinkWritten, appended, audioSetup, packet, frameImage>>

\* lines 158-160: the three std::thread objects are assigned; assigning to
\* a std::thread that is still joinable calls std::terminate
StartSpawn(c) ==
    /\ PFrame
    /\ cpc[c] = "spawn"
    /\ IF \E w \in Workers : joinable[w]
       THEN /\ terminated' = TRUE
            /\ UNCHANGED <<joinable, wpc, retryCount>>
       ELSE /\ joinable' = [w \in Workers |-> TRUE]
            /\ wpc' = [w \in Workers |-> "top"]
            /\ retryCount' = 0
            /\ UNCHANGED terminated
    /\ cpc' = [cpc EXCEPT ![c] = "idle"]
    /\ cop' = [cop EXCEPT ![c] = "none"]
    /\ UNCHANGED <<running, m_stopRequested, m_stopInProgress,
                   m_shutdownFuture, m_maxReconnectAttempts,
                   m_reconnectDelayMs, sleepLeft, ctxHolder, cfut, tpc, qn,
                   qclosed, vDropped, ctx, bitrate, opens, statusLog,
                   urlGiven, m_currentUrl, m_audioPendingQueue, localQueue,
                   offset, pumpPc, sinkWritten, appended, audioSetup, conn,
                   packet, frameImage>>

\* ---- the setters of the retry settings ----
\* lines 390-391 and 400-401: if (v < 0) v = 0
\* (variant: the value is stored as given)
ClampToZero_Not(v) == v

ClampToZero(v) == IF v < 0 THEN 0 ELSE v

\* the values the setters are called with
SettingValues == -1 .. MaxDelay

\* setMaxReconnectAttempts(n), lines 389-393, called on the owner thread
SetMaxReconnectAttempts(n) ==
    /\ PFrame
    /\ cpc[Owner] = "idle"
    /\ m_maxReconnectAttempts' = ClampToZero(n)
    /\ UNCHANGED <<running, m_stopRequested, m_stopInProgress,
                   m_shutdownFuture, m_reconnectDelayMs, sleepLeft,
                   ctxHolder, joinable, wpc, cop, cpc, cfut, tpc, qn,
                   qclosed, vDropped, ctx, bitrate, retryCount, opens,
                   statusLog, terminated, urlGiven, m_currentUrl,
                   m_audioPendingQueue, localQueue, offset, pumpPc,
                   sinkWritten, appended, audioSetup, conn, packet,
                   frameImage>>

\* setReconnectDelayMs(ms), lines 399-403, called on the owner thread
SetReconnectDelayMs(ms) ==
    /\ PFrame
    /\ cpc[Owner] = "idle"
    /\ m_reconnectDelayMs' = ClampToZero(ms)
    /\ UNCHANGED <<running, m_stopRequested, m_stopInProgress,
                   m_shutdownFuture, m_maxReconnectAttempts, sleepLeft,
                   ctxHolder, joinable, wpc, cop, cpc, cfut, tpc, qn,
                   qclosed, vDropped, ctx, bitrate, retryCount, opens,
                   statusLog, terminated, urlGiven, m_currentUrl,
                   m_audioPendingQueue, localQueue, offset, pumpPc,
                   sinkWritten, appended, audioSetup, conn, packet,
                   frameImage>>

\* ---- the audio write pump (lines 995-1038) ----
\* a PCM buffer is the sequence of its bytes; a byte is known by its number
\* in the order of the appends and knows whether it ends its buffer
NewSamples(n) == [i \in 1..n |-> [id |-> appended + i, last |-> i = n]]

\* samples.mid(offset)
Mid(samples, from) == SubSeq(samples, from + 1, Len(samples))

\* line 1025: where the unwritten rest of a buffer is put back
\* (variant: at the back of the pending queue)
Requeue_AtBack(rest) == Append(m_audioPendingQueue, rest)

Requeue(rest) == <<rest>> \o m_audioPendingQueue

\* emitAudioSamples (lines 995-998), called by the audio decode thread with a
\* buffer of n bytes: push_back under m_audioPendingMutex
EmitAudioSamples(n) ==
    /\ PFrame
    /\ appended + n <= MaxBytes
    /\ m_audioPendingQueue' = Append(m_audioPendingQueue, NewSamples(n))
    /\ appended' = appended + n
    /\ UNCHANGED <<running, m_stopRequested, m_stopInProgress,
                   m_shutdownFuture, m_maxReconnectAttempts,
                   m_reconnectDelayMs, sleepLeft, ctxHolder, joinable, wpc,
                   cop, cpc, cfut, tpc, qn, qclosed, vDropped, ctx, bitrate,
                   retryCount, opens, statusLog, terminated, urlGiven,
                   m_currentUrl, localQueue, offset, pumpPc, sinkWritten,
                   audioSetup, conn, packet, frameImage>>

\* processAudioQueue, lines 1003-1013, on the timer of the owner thread with
\* the audio output set up: the pending queue is swapped into localQueue
\* under m_audioPendingMutex
PumpTick ==
    /\ PFrame
    /\ pumpPc = "idle"
    /\ localQueue' = m_audioPendingQueue
    /\ m_audioPendingQueue' = <<>>
    /\ offset' = 0
    /\ pumpPc' = IF m_audioPendingQueue = <<>> THEN "idle" ELSE "writing"
    /\ UNCHANGED <<running, m_stopRequested, m_stopInProgress,
                   m_shutdownFuture, m_maxReconnectAttempts,
                   m_reconnectDelayMs, sleepLeft, ctxHolder, joinable, wpc,
                   cop, cpc, cfut, tpc, qn, qclosed, vDropped, ctx, bitrate,
                   retryCount, opens, statusLog, terminated, urlGiven,
                   m_currentUrl, sinkWritten, appended, audioSetup, conn,
                   packet, frameImage>>

\* lines 1015-1036, one round of the inner loop on the buffer at the head of
\* localQueue: bytesFree() returns free; with none free the rest of the
\* buffer is put back and the tick returns; else write() returns written,
\* and the tick returns if that is no byte; localQueue dies with the return
PumpWrite(free, written) ==
    /\ PFrame
    /\ pumpPc = "writing"
    /\ LET samples == Head(localQueue)
           totalSize == Len(samples)
       IN IF free <= 0
          THEN /\ written = 0
               /\ m_audioPendingQueue' = Requeue(Mid(samples, offset))
               /\ localQueue' = <<>>
               /\ offset' = 0
               /\ pumpPc' = "idle"
               /\ UNCHANGED sinkWritten
          ELSE IF written <= 0
          THEN /\ localQueue' = <<>>
               /\ offset' = 0
               /\ pumpPc' = "idle"
               /\ UNCHANGED <<m_audioPendingQueue, sinkWritten>>
          ELSE /\ written <= Min(free, totalSize - offset)
               /\ sinkWritten' = sinkWritten
                        \o SubSeq(samples, offset + 1, offset + written)
               /\ IF offset + written < totalSize
                  THEN /\ offset' = offset + written
                       /\ UNCHANGED <<localQueue, pumpPc>>
                  ELSE /\ offset' = 0
                       /\ localQueue' = Tail(localQueue)
                       /\ pumpPc' = IF Tail(localQueue) = <<>> THEN "idle"
                                    ELSE "writing"
               /\ UNCHANGED m_audioPendingQueue
    /\ UNCHANGED <<running, m_stopRequested, m_stopInProgress,
                   m_shutdownFuture, m_maxReconnectAttempts,
                   m_reconnectDelayMs, sleepLeft, ctxHolder, joinable, wpc,
                   cop, cpc, cfut, tpc, qn, qclosed, vDropped, ctx, bitrate,
                   retryCount, opens, statusLog, terminated, urlGiven,
                   m_currentUrl, appended, audioSetup, conn, packet,
                   frameImage>>

\* ---- the player specifications ----
\* the player after construction, with the retry limit the user interface
\* sets before it starts a session (mainwindow.cpp 103-110) and a delay of
\* one unit of sleeping time.  The single queue of the first part stays as
\* constructed.
PlayerInit ==
    /\ PlayerConstructed
    /\ m_maxReconnectAttempts \in AttemptLimits
    /\ m_reconnectDelayMs = 1
    /\ urlGiven = SampleUrl
    /\ audioSetup = "ok"
    /\ running = FALSE
    /\ QueueConstructed
    /\ m_maxSize = QueueCap
    /\ m_policy = "Block"

\* the same with the constructor's retry limit
DefaultInit ==
    /\ PlayerConstructed
    /\ m_maxReconnectAttempts = kMaxReconnectAttempts
    /\ m_reconnectDelayMs = kReconnectDelayMs
    /\ urlGiven = SampleUrl
    /\ audioSetup = "ok"
    /\ running = FALSE
    /\ QueueConstructed
    /\ m_maxSize = QueueCap
    /\ m_policy = "Block"

\* no session has been started yet: every start() emits "Connecting"
Fresh == statusLog = <<>>

\* the three worker threads and what the owner thread does for them, with
\* an input that can fail to open and can fail while it is read, for as
\* long as nobody clears m_running under a read
WorkerNext ==
    \/ DemuxTop
    \/ DemuxOpenFails
    \/ DemuxOpenSucceeds
    \/ OwnerServesAudioSetup
    \/ DemuxOpenFailed
    \/ DemuxTermStores
    \/ DemuxSleepEnds
    \/ DemuxReadVideo
    \/ DemuxReadAudio
    \/ DemuxPushWoke
    \/ DemuxReadError
    \/ DemuxPost
    \/ DemuxCount
    \/ DemuxCloseQueues
    \/ DemuxClearQueues
    \/ DemuxCloseStream
    \/ DemuxCheck
    \/ DemuxReopenQueues
    \/ \E w \in Decoders : DecoderTop(w)
    \/ \E w \in Decoders : DecoderPopWoke(w)
    \/ \E w \in Decoders : DecoderLock(w)
    \/ \E w \in Decoders : \E k \in 0..MaxFrames : DecoderDecode(w, k)
    \/ DecoderEmit

\* the same with an input that opens and delivers packets for as long as it
\* is asked to: an open or a read ends only when the interrupt callback
\* ends it
SteadyWorkerNext ==
    \/ DemuxTop
    \/ Interrupted /\ DemuxOpenFails
    \/ DemuxOpenSucceeds
    \/ OwnerServesAudioSetup
    \/ DemuxOpenFailed
    \/ DemuxInnerExit
    \/ DemuxReadVideo
    \/ DemuxReadAudio
    \/ DemuxPushWoke
    \/ DemuxPost
    \/ \E w \in Decoders : DecoderTop(w)
    \/ \E w \in Decoders : DecoderPopWoke(w)
    \/ \E w \in Decoders : DecoderLock(w)
    \/ \E w \in Decoders : \E k \in 0..MaxFrames : DecoderDecode(w, k)
    \/ DecoderEmit

\* the shutdown task
TaskNext ==
    \/ \E t \in Tasks : TaskFlags(t)
    \/ \E t \in Tasks : TaskClose(t)
    \/ \E t \in Tasks : TaskJoin(t)
    \/ \E t \in Tasks : TaskCleanup(t)
    \/ \E t \in Tasks : OwnerServesTeardown(t)
    \/ \E t \in Tasks : TaskFinish(t)

\* the first start(url) of a player: stop() has nothing to stop and there
\* is no shutdown to wait for
FirstStartNext ==
    \/ Fresh /\ StartCall(Owner)
    \/ Fresh /\ WaitCopy(Owner)
    \/ Fresh /\ StartInit(Owner)
    \/ StartSpawn(Owner)

\* One session that nobody stops: the owner thread starts it and goes back
\* to its event loop.
ReconnectNext == WorkerNext \/ FirstStartNext

\* the retry limits of this scenario: those of the other scenarios and 3
ReconnectInit ==
    /\ PlayerConstructed
    /\ m_maxReconnectAttempts \in AttemptLimits \cup {3}
    /\ m_reconnectDelayMs = 1
    /\ urlGiven = SampleUrl
    /\ audioSetup = "ok"
    /\ running = FALSE
    /\ QueueConstructed
    /\ m_maxSize = QueueCap
    /\ m_policy = "Block"

ReconnectSpec == ReconnectInit /\ [][ReconnectNext]_vars

\* The same session on inputs and audio devices of every kind: the audio
\* part of openStream meets any of its outcomes
AudioInit ==
    /\ PlayerConstructed
    /\ m_maxReconnectAttempts \in AttemptLimits
    /\ m_reconnectDelayMs = 1
    /\ urlGiven = SampleUrl
    /\ audioSetup \in AudioSetups
    /\ running = FALSE
    /\ QueueConstructed
    /\ m_maxSize = QueueCap
    /\ m_policy = "Block"

AudioNext == ReconnectNext \/ OwnerServesAudioTeardown

AudioSpec == AudioInit /\ [][AudioNext]_vars

\* One session whose retry settings the owner thread changes at any time,
\* before and while it runs.
SettingsNext ==
    \/ ReconnectNext
    \/ DemuxSleepTick
    \/ \E n \in SettingValues : SetMaxReconnectAttempts(n)
    \/ \E ms \in SettingValues : SetReconnectDelayMs(ms)

SettingsSpec == ReconnectInit /\ [][SettingsNext]_vars

\* The call of start(url) alone, for every URL of the model.
SanitizeInit ==
    /\ PlayerConstructed
    /\ m_maxReconnectAttempts = kMaxReconnectAttempts
    /\ m_reconnectDelayMs = kReconnectDelayMs
    /\ urlGiven \in Urls
    /\ audioSetup = "ok"
    /\ running = FALSE
    /\ QueueConstructed
    /\ m_maxSize = QueueCap
    /\ m_policy = "Block"

SanitizeSpec == SanitizeInit /\ [][FirstStartNext]_vars

\* The audio path alone: the audio decode thread appends buffers, the
\* owner thread's timer runs the pump, the sink takes what it has room for.
PumpNext ==
    \/ \E n \in 1..MaxBuf : EmitAudioSamples(n)
    \/ PumpTick
    \/ \E free \in 0..MaxFree : \E written \in 0..MaxFree :
            PumpWrite(free, written)

PumpSpec == DefaultInit /\ [][PumpNext]_vars

\* One session, and a thread that is not the owner thread calling stop().
StopOnceNext ==
    \/ WorkerNext
    \/ DemuxInnerExit
    \/ FirstStartNext
    \/ TaskNext
    \/ StopCall("ext")
    \/ StopExchange("ext")
    \/ StopPublish("ext")
    \/ WaitTask("ext")
    \/ CallReturned("ext")

StopOnceSpec == PlayerInit /\ [][StopOnceNext]_vars

\* One session with a reconnect delay of more than one unit of sleeping
\* time, and a thread that is not the owner thread calling stop().
SleepInit ==
    /\ PlayerConstructed
    /\ m_maxReconnectAttempts \in AttemptLimits
    /\ m_reconnectDelayMs = MaxDelay
    /\ urlGiven = SampleUrl
    /\ audioSetup = "ok"
    /\ running = FALSE
    /\ QueueConstructed
    /\ m_maxSize = QueueCap
    /\ m_policy = "Block"

SleepNext == StopOnceNext \/ DemuxSleepTick

SleepSpec == SleepInit /\ [][SleepNext]_vars

\* One session on a steady input, and every thread calling stop().
StopNext ==
    \/ SteadyWorkerNext
    \/ FirstStartNext
    \/ TaskNext
    \/ \E c \in Callers : StopCall(c)
    \/ \E c \in Callers : StopExchange(c)
    \/ \E c \in Callers : StopPublish(c)
    \/ \E c \in Callers \ {Owner} : WaitCopy(c)
    \/ \E c \in Callers : WaitTask(c)
    \/ \E c \in Callers : CallReturned(c)

StopSpec == DefaultInit /\ [][StopNext]_vars

\* Sessions on a steady input, started and stopped by the owner thread.
SessionNext ==
    \/ SteadyWorkerNext
    \/ TaskNext
    \/ StopCall(Owner)
    \/ StopExchange(Owner)
    \/ StopPublish(Owner)
    \/ WaitCopy(Owner)
    \/ WaitTask(Owner)
    \/ CallReturned(Owner)
    \/ StartEmpty(Owner)
    \/ StartCall(Owner)
    \/ StartInit(Owner)
    \/ StartSpawn(Owner)

SessionSpec == DefaultInit /\ [][SessionNext]_vars

\* the workers on an input that opens and then delivers no packet for as
\* long as the session lasts: the demuxer stays in av_read_frame until the
\* interrupt callback ends the read, the decoders wait in pop
QuietWorkerNext ==
    \/ DemuxTop
    \/ Interrupted /\ DemuxOpenFails
    \/ DemuxOpenSucceeds
    \/ OwnerServesAudioSetup
    \/ DemuxOpenFailed
    \/ DemuxInnerExit
    \/ DemuxPost
    \/ \E w \in Decoders : DecoderTop(w)
    \/ \E w \in Decoders : DecoderPopWoke(w)

\* Sessions on such an input that the owner thread starts one after the
\* other, and a thread that is not the owner thread calling stop() while
\* the owner thread is inside start().
OverlapNext ==
    \/ QuietWorkerNext
    \/ TaskNext
    \/ StartCall(Owner)
    \/ StopExchange(Owner)
    \/ StopPublish(Owner)
    \/ WaitCopy(Owner)
    \/ WaitTask(Owner)
    \/ StartInit(Owner)
    \/ StartSpawn(Owner)
    \/ InStart(Owner) /\ StopCall("ext")
    \/ StopExchange("ext")
    \/ StopPublish("ext")
    \/ WaitCopy("ext")
    \/ WaitTask("ext")
    \/ CallReturned("ext")

OverlapSpec == DefaultInit /\ [][OverlapNext]_vars

\* ---- fairness ----
\* the next step of the demuxer; a wait in push ends only when notified
DemuxStep ==
    \/ DemuxTop \/ DemuxOpenFails \/ DemuxOpenSucceeds \/ DemuxOpenFailed
    \/ DemuxTermStores \/ DemuxSleepEnds \/ DemuxInnerExit
    \/ DemuxReadVideo \/ DemuxReadAudio \/ DemuxPushWoke \/ DemuxReadError
    \/ DemuxPost \/ DemuxCount \/ DemuxCloseQueues \/ DemuxClearQueues
    \/ DemuxCloseStream \/ DemuxCheck \/ DemuxReopenQueues

\* the demuxer on a steady input
SteadyDemuxStep ==
    \/ DemuxTop \/ (Interrupted /\ DemuxOpenFails) \/ DemuxOpenSucceeds
    \/ DemuxOpenFailed \/ DemuxInnerExit \/ DemuxReadVideo \/ DemuxReadAudio
    \/ DemuxPushWoke \/ DemuxPost

\* the next step of a decoder; a wait in pop ends only when notified
DecoderStep(w) ==
    \/ DecoderTop(w) \/ DecoderPopWoke(w) \/ DecoderLock(w)
    \/ \E k \in 0..MaxFrames : DecoderDecode(w, k)
    \/ w = "video" /\ DecoderEmit

TaskStep(t) ==
    TaskFlags(t) \/ TaskClose(t) \/ TaskJoin(t) \/ TaskCleanup(t) \/ TaskFinish(t)

\* the next step of a caller inside stop() or start()
CallerStep(c) ==
    \/ StopExchange(c) \/ StopPublish(c) \/ WaitCopy(c) \/ WaitTask(c)
    \/ CallReturned(c) \/ StartInit(c) \/ StartSpawn(c)

\* the owner thread's event loop runs the calls queued to it
OwnerServes ==
    \/ OwnerServesAudioSetup \/ OwnerServesAudioTeardown
    \/ \E t \in Tasks : OwnerServesTeardown(t)

\* Every thread that can take a step eventually takes one: the input
\* returns from open and read (at the latest when the interrupt callback
\* tells it to), sleeps end, a blocking call ends once what it waits for has
\* happened, and the owner thread's event loop, when the owner thread is in
\* it, runs what is queued.  Nothing obliges anybody to call stop() or
\* start(), and a condition-variable wait ends only when notified.
Fairness ==
    /\ \A w \in Decoders : WF_vars(DecoderStep(w))
    /\ \A t \in Tasks : WF_vars(TaskStep(t))
    /\ \A c \in Callers : WF_vars(CallerStep(c))
    /\ WF_vars(OwnerServes)

ReconnectFairSpec == ReconnectSpec /\ WF_vars(DemuxStep) /\ Fairness

StopOnceFairSpec == StopOnceSpec /\ WF_vars(DemuxStep) /\ Fairness

SessionFairSpec == SessionSpec /\ WF_vars(SteadyDemuxStep) /\ Fairness

PlayerTypeOK ==
    /\ m_stopRequested \in BOOLEAN
    /\ m_stopInProgress \in BOOLEAN
    /\ m_shutdownFuture \in Tasks \cup {NoFuture}
    /\ wpc \in [Workers -> STRING]
    /\ qn \in [Decoders -> 0..QueueCap]
    /\ vDropped \in 0..MaxDropped
    /\ opens \in 0..MaxOpens
    /\ retryCount \in Nat
    /\ m_maxReconnectAttempts \in Nat
    /\ m_reconnectDelayMs \in Nat
    /\ sleepLeft \in Nat
    /\ ctxHolder \in Decoders \cup {NoThread}
    /\ m_currentUrl \in Urls \cup {NoUrl}
    /\ offset \in 0..MaxBuf
    /\ Len(sinkWritten) <= appended
    /\ appended \in 0..MaxBytes
    /\ audioSetup \in AudioSetups
    /\ conn \in 0..MaxOpens
    /\ packet \in [Decoders -> 0..MaxOpens]
    /\ frameImage \in 0..MaxFrames

\* ======================================================================
\* Claims about the reconnect controller
\* ======================================================================

\* the kinds of the statuses of this session, in the order of emission
Kinds == [i \in 1..Len(statusLog) |-> statusLog[i].s]

Emitted(s) == \E i \in 1..Len(statusLog) : statusLog[i].s = s

\* how many statuses of kind s this session has emitted
RECURSIVE CountIn(_, _)
CountIn(log, s) ==
    IF log = <<>> THEN 0
    ELSE (IF Head(log).s = s THEN 1 ELSE 0) + CountIn(Tail(log), s)

\* the demuxer has emitted the terminal error and "Stopped" and is at or
\* past the stores that clear m_running
RetriesExhausted == Emitted("TerminalError")

AllWorkersDone == \A w \in Workers : wpc[w] = "done"

\* C18: once the reconnect counter has reached max_attempts and the demuxer
\* has emitted the terminal error and "Stopped", all three worker threads
\* eventually leave their loops, without any call to stop().
C18_WorkersTerminateAfterExhaustion == RetriesExhausted ~> AllWorkersDone

\* C19: with max_attempts = 2 and an input whose open always fails, the
\* session's statuses are "Connecting", two "Retrying connection", the
\* terminal error and "Stopped", with nothing after them, and m_running is
\* cleared only after "Stopped".
OpenNeverSucceeded == opens > 0 /\ ~Emitted("Playing")

C19_TwoRetriesThenTerminal ==
    (m_maxReconnectAttempts = 2 /\ OpenNeverSucceeded)
        => /\ RetriesExhausted =>
                Kinds = <<"Connecting", "Retrying", "Retrying",
                          "TerminalError", "Stopped">>
           /\ ~running => Kinds[Len(Kinds)] = "Stopped"

\* C20: with max_attempts = 0 nothing is retried: no "Retrying connection"
\* status is ever emitted, the input is opened at most once, and the first
\* open failure or the first disconnect is followed by the terminal error,
\* "Stopped" and the clearing of m_running.
AfterFirstFailure ==
    wpc[D] \in {"termOpen", "termPost", "cleanup", "clear", "closeStream",
                "check", "done"}

C20_ZeroMeansNoRetry ==
    m_maxReconnectAttempts = 0
        => /\ ~Emitted("Retrying")
           /\ opens <= 1
           /\ wpc[D] \notin {"sleep", "reopen"}
           /\ AfterFirstFailure =>
                /\ CountIn(statusLog, "TerminalError") = 1
                /\ Kinds[Len(Kinds)] = "Stopped"
                /\ wpc[D] \notin {"termOpen", "termPost"}
                     => ~running /\ m_stopRequested

C20_Witness ==
    /\ m_maxReconnectAttempts = 0
    /\ wpc[D] = "done"
    /\ Emitted("Connection lost")
    /\ RetriesExhausted

\* ======================================================================
\* Claims about start()
\* ======================================================================

\* what a call of start("") must leave alone
SessionState ==
    <<running, m_stopRequested, m_stopInProgress, m_shutdownFuture,
      joinable, wpc, tpc, qn, qclosed, vDropped, ctx, bitrate, retryCount,
      statusLog, terminated>>

\* C17: start("") reports the error and returns; the step changes nothing
\* else: no thread is spawned, no status is emitted, and the flags, queues
\* and threads of a running session are as they were.
C17_EmptyUrlChangesNothing ==
    [][(cop'[Owner] = "startEmpty" /\ cop[Owner] # "startEmpty")
          => /\ cpc'[Owner] = "returned"
             /\ UNCHANGED SessionState]_vars

C17_Witness ==
    /\ cop[Owner] = "startEmpty"
    /\ running
    /\ \A w \in Workers : joinable[w]
    /\ Emitted("Playing")

\* C15: when start(url) is about to spawn the workers, both queues are open
\* and empty, the dropped counter is 0, m_running is true, m_stopRequested
\* is false, the bitrate is 0, there is no decoder context and the only
\* status of the session is "Connecting", whether or not an earlier session
\* was run and stopped; "Playing" is never the first status of a session.
AtSpawn == cpc[Owner] = "spawn"

C15_SameStateAtSpawn ==
    /\ AtSpawn =>
          /\ qn = [q \in Decoders |-> 0]
          /\ qclosed = [q \in Decoders |-> FALSE]
          /\ vDropped = 0
          /\ running
          /\ ~m_stopRequested
          /\ bitrate = 0
          /\ ~ctx
          /\ statusLog = <<St("Connecting")>>
    /\ Emitted("Playing") => Kinds[1] = "Connecting"

\* a second session is about to be spawned
C15_Witness == AtSpawn /\ m_shutdownFuture # NoFuture

\* C16: start(url) called on the owner thread while a session is running
\* eventually completes: the old session is shut down and the three new
\* workers are spawned.
StartWhileRunning == cop[Owner] = "start" /\ cpc[Owner] = "xchg" /\ running

StartCompleted ==
    /\ cop[Owner] = "none"
    /\ ~terminated
    /\ \A w \in Workers : joinable[w]

C16_StartWhileRunningCompletes == StartWhileRunning ~> StartCompleted

\* ======================================================================
\* Claims about stop()
\* ======================================================================

\* the shutdown tasks that are inside stopInternal
InShutdown == {t \in Tasks : tpc[t] \notin {"none", "done"}}

\* C13: at most one execution of stopInternal is in progress at any time,
\* however the calls of stop() interleave; a caller whose exchange finds
\* m_stopInProgress set launches nothing.
C13_OneShutdownAtATime ==
    /\ Cardinality(InShutdown) <= 1
    /\ InShutdown # {} => m_stopInProgress
    /\ \A c \in Callers : cpc[c] = "waitCopyInStop" => cfut[c] = NoFuture

\* a second caller has found the flag set while a shutdown is running
C13_Witness ==
    /\ InShutdown # {}
    /\ cpc["ext"] = "waitCopyInStop"
    /\ cop[Owner] = "stop"

\* a shutdown has run to its end
ShutdownCompleted == \E t \in Tasks : tpc[t] = "done"

\* C14: once a shutdown has completed, a call of stop() returns at once:
\* it changes no flag, queue or thread, launches nothing and emits no
\* status, so any number of further calls leaves the state of one stop().
C14_StopIdempotent ==
    [][\A c \in Callers :
          (ShutdownCompleted /\ cpc[c] = "idle" /\ cop'[c] = "stop")
             => /\ cpc'[c] = "returnedAtOnce"
                /\ UNCHANGED SessionState
                /\ UNCHANGED cfut]_vars

C14_Witness ==
    /\ ShutdownCompleted
    /\ cpc[Owner] = "returnedAtOnce"
    /\ CountIn(statusLog, "Stopped") = 1
    /\ Emitted("Playing")

\* C11: when a call of stop() made from a thread that is not the owner
\* thread returns, no worker thread is joinable any more and both packet
\* queues are empty, also for a caller that found a shutdown in progress.
C11_StoppedWhenStopReturns ==
    [][(~HasReturned("ext") /\ HasReturned("ext")' /\ cop'["ext"] = "stop")
          => /\ \A w \in Workers : ~joinable'[w]
             /\ qn' = [q \in Decoders |-> 0]]_vars

\* stop() has been called on a session whose workers run, with the owner
\* thread back in its event loop
StopRequestedOnSession ==
    /\ cop["ext"] = "stop"
    /\ cpc["ext"] = "xchg"
    /\ cpc[Owner] = "idle"
    /\ \A w \in Workers : joinable[w]

\* the shutdown has run to its end: the workers have left their loops and
\* are joined, "Stopped" is the last status, m_stopInProgress is cleared
ShutdownDone ==
    /\ ShutdownCompleted
    /\ AllWorkersDone
    /\ \A w \in Workers : ~joinable[w]
    /\ Kinds[Len(Kinds)] = "Stopped"
    /\ ~m_stopInProgress

\* C12: after stop() is called on a running session, with the owner thread
\* serving its event queue, the shutdown eventually runs to its end
\* wherever the workers were (in an open or a read, in a push on the full
\* audio queue, in the sleep between attempts, in a pop on an empty queue);
\* after it no decoder delivers a frame.
C12_StopCompletes ==
    /\ StopRequestedOnSession ~> ShutdownDone
    /\ [](ShutdownCompleted => \A w \in Decoders : ~Delivers(w))

\* stop() is called with the demuxer blocked in push and a decoder blocked
\* in pop
C12_Witness ==
    /\ StopRequestedOnSession
    /\ wpc[D] = "pushWait"
    /\ wpc["video"] = "popWait"

\* ======================================================================
\* Claims about the reconnect counter, the statuses and the retry settings
\* ======================================================================
\* the steps of the demuxer that end an attempt
OpenSucceededStep ==
    wpc[D] \in {"audioSetup", "audioTeardown"} /\ wpc'[D] = "reading"

\* the loop handles a failed open (line 274) or a disconnect (line 351) and
\* finds that no stop was requested
FailureCountedStep ==
    /\ wpc[D] \in {"openFailed", "count"}
    /\ wpc'[D] # wpc[D]
    /\ running /\ ~m_stopRequested

\* a new session's demuxLoop starts with its own counter
NewSessionStep == cpc[Owner] = "spawn" /\ cpc'[Owner] # "spawn"

\* C21: the reconnect counter is 0 right after every successful open, is
\* incremented by exactly 1 by each open failure and each disconnect that the
\* loop handles with no stop requested, and is changed by no other step of
\* the session.
C21_CounterSteps ==
    [][/\ OpenSucceededStep => retryCount' = 0
       /\ FailureCountedStep => retryCount' = retryCount + 1
       /\ ~(OpenSucceededStep \/ FailureCountedStep \/ NewSessionStep)
            => retryCount' = retryCount]_vars

\* a second open has succeeded after a counted disconnect
C21_Witness ==
    /\ Emitted("Connection lost")
    /\ Emitted("Retrying")
    /\ wpc[D] = "reading"
    /\ retryCount = 0
    /\ statusLog[Len(statusLog)].s = "Playing"

\* the statuses of a session whose first open succeeded, whose stream then
\* failed, and whose second open succeeded
ReconnectedLog ==
    <<St("Connecting"), St("Playing"), St("Connection lost"),
      StK("Retrying", 1), St("Playing")>>

\* both opens of the session have succeeded
ReconnectedOnce == opens = 2 /\ CountIn(statusLog, "Playing") = 2

\* the step appends the status s to the log
Emits(s) ==
    /\ Len(statusLog') = Len(statusLog) + 1
    /\ statusLog'[Len(statusLog')].s = s

\* C22: with max_attempts = 3, a session whose opened stream fails and whose
\* next open succeeds has emitted, up to that open, exactly "Connecting",
\* "Playing", "Connection lost", "Retrying connection (1/3)", "Playing";
\* "Playing" is emitted only by the step that completes a successful open,
\* and a "Connection lost" always directly follows the "Playing" of its
\* connection.
C22_StatusOrder ==
    /\ [](m_maxReconnectAttempts = 3 /\ ReconnectedOnce
            => /\ Len(statusLog) >= 5
               /\ SubSeq(statusLog, 1, 5) = ReconnectedLog)
    /\ [](\A i \in 1..Len(statusLog) :
            statusLog[i].s = "Connection lost"
                => i > 1 /\ statusLog[i - 1].s = "Playing")
    /\ [][Emits("Playing") => OpenSucceededStep]_vars

C22_Witness ==
    /\ m_maxReconnectAttempts = 3
    /\ ReconnectedOnce
    /\ statusLog = ReconnectedLog
    /\ wpc[D] = "reading"

\* the failing attempts since the last successful open, as the statuses
\* show them: each is answered by "Retrying connection" or by the terminal
\* error
RECURSIVE FailuresAtEnd(_)
FailuresAtEnd(log) ==
    IF log = <<>> \/ log[Len(log)].s = "Playing" THEN 0
    ELSE (IF log[Len(log)].s \in {"Retrying", "TerminalError"} THEN 1 ELSE 0)
         + FailuresAtEnd(SubSeq(log, 1, Len(log) - 1))

\* the statuses after the terminal error are not attempts
UpToStopped(log) ==
    IF log # <<>> /\ log[Len(log)].s = "Stopped"
    THEN SubSeq(log, 1, Len(log) - 1) ELSE log

ConsecutiveFailures == FailuresAtEnd(UpToStopped(statusLog))

AttemptBound == IF m_maxReconnectAttempts > 1 THEN m_maxReconnectAttempts ELSE 1

\* C23: with max_attempts = N the demuxer never makes more than max(1, N)
\* failing attempts in a row; when it has made that many, it opens the input
\* no more and the session is ending: m_running is false or about to be
\* stored false by the demuxer.
C23_BoundedReconnect ==
    /\ [](ConsecutiveFailures <= AttemptBound)
    /\ [](ConsecutiveFailures >= AttemptBound
            => ~running \/ wpc[D] \in {"termOpen", "termPost"})
    /\ [][ConsecutiveFailures >= AttemptBound => opens' = opens]_vars

\* two failing attempts in a row under a limit of 2, a disconnect and the
\* failed open that followed it, and the session over
C23_Witness ==
    /\ m_maxReconnectAttempts = 2
    /\ ConsecutiveFailures = 2
    /\ Emitted("Connection lost")
    /\ opens = 2
    /\ ~running
    /\ wpc[D] = "done"

\* the demuxer goes from a retry decision to its sleep
SleepBegins == wpc[D] # "sleep" /\ wpc'[D] = "sleep"

\* the demuxer has decided to retry and has emitted "Retrying connection"
RetryAnnounced == Emits("Retrying")

\* C24: the stored retry limit and delay are never negative, and a decision
\* of the demuxer uses the values stored at that moment: a counted failure is
\* terminal exactly if the counter has reached the stored limit, and the
\* sleep that follows a retry lasts the stored delay (none for 0).
C24_SettingsClampedAndUsed ==
    /\ [](m_maxReconnectAttempts >= 0 /\ m_reconnectDelayMs >= 0)
    /\ [][FailureCountedStep
            => (wpc'[D] \in {"termOpen", "termPost"}
                    <=> retryCount + 1 >= m_maxReconnectAttempts)]_vars
    /\ [][RetryAnnounced
            => IF m_reconnectDelayMs > 0
               THEN SleepBegins /\ sleepLeft' = m_reconnectDelayMs
               ELSE wpc'[D] = "top"]_vars

\* the first failure of the session was answered by a retry, so the limit
\* was 2 or more; the disconnect of the connection that followed was
\* terminal at a count of 1, so the limit had been lowered meanwhile
C24_Witness ==
    /\ Len(statusLog) >= 5
    /\ [i \in 1..5 |-> statusLog[i].s]
         = <<"Connecting", "Retrying", "Playing", "Connection lost",
             "TerminalError">>
    /\ wpc[D] = "termPost"
    /\ retryCount = 1

\* ======================================================================
\* Claims about the context mutex
\* ======================================================================
\* openStream has created the codec contexts, the scaler and the resampler
\* through its local pointers (lines 655-806) and has not published them yet
LocalHandles == wpc[D] \in {"audioSetup", "audioTeardown"}

\* the thread w is inside send_packet / receive_frame / sws_scale /
\* swr_convert on the published handles
UsesContexts(w) == wpc[w] = "using"

\* the members that hold the handles are assigned: published by openStream
\* or reset by closeStream
MembersChange == ctx' # ctx

\* C25 as stated: also the creation of the handles happens only while the
\* creating thread holds the context mutex.
C25_AsStated ==
    /\ LocalHandles => ctxHolder = D
    /\ \A w \in Decoders : UsesContexts(w) => ctx /\ ctxHolder = w

\* C25: the handles the player's members refer to are published, used by the
\* decode threads and destroyed only under the context mutex (openStream
\* creates them through local pointers before it takes the mutex): a decode
\* thread that uses them holds the mutex and the contexts exist, and the
\* members change only in a step that finds the mutex free and takes it for
\* the whole change.
C25_ContextsUnderMutex ==
    /\ [](\A w \in Decoders : UsesContexts(w) => ctx /\ ctxHolder = w)
    /\ [][MembersChange => ctxHolder = NoThread /\ ctxHolder' = NoThread]_vars

\* the video decoder is decoding while the demuxer, after a disconnect, is
\* about to close the stream
C25_Witness ==
    /\ UsesContexts("video")
    /\ wpc[D] = "closeStream"
    /\ Emitted("Connection lost")

\* the places where a worker thread is blocked or may block: the waits of
\* pop and push, avformat_open_input, av_read_frame, the retry sleep, and the
\* blocking queued call to the owner thread
BlockingPlaces ==
    {"popWait", "popWoke", "pushWait", "pushWoke", "opening", "reading",
     "sleep", "audioSetup", "audioTeardown"}

\* C29: no worker thread holds the context mutex while it is in a queue wait,
\* in the open or a read of the input, in the retry sleep or in a blocking
\* call to the owner thread; the shutdown task, which also dispatches to the
\* owner thread, never holds it between steps.
C29_NoMutexAcrossWaits ==
    /\ \A w \in Workers : wpc[w] \in BlockingPlaces => ctxHolder # w
    /\ ctxHolder \in Decoders \cup {NoThread}

\* the audio decoder holds the mutex while the video decoder waits in pop
\* and the demuxer waits in push
C29_Witness ==
    /\ ctxHolder = "audio"
    /\ wpc["video"] = "popWait"
    /\ wpc[D] = "pushWait"

\* ======================================================================
\* Claims about the reconnect sequence
\* ======================================================================
\* the demuxer executes m_videoQueue.open(); m_audioQueue.open() (372-373)
ReopenStep == wpc[D] = "reopen" /\ wpc'[D] # "reopen"

\* the demuxer stands before the re-open, after close, clear and closeStream
BeforeReopen == wpc[D] = "reopen"

\* C30: after a disconnect the demuxer closes both queues, clears them and
\* closes the stream before it re-opens the queues, so that at the re-open
\* both queues are empty and no decoder context exists; and it does not
\* re-open the queues when the retry budget is exhausted or a stop has been
\* requested.
C30_ReconnectSequence ==
    /\ [](BeforeReopen => ~ctx /\ \A q \in Decoders : qn[q] = 0)
    /\ [][ReopenStep => ~Emitted("TerminalError") /\ ~m_stopRequested]_vars

\* ======================================================================
\* Claims about the delay between attempts
\* ======================================================================
\* a unit of the demuxer's sleeping time passes
SleepingTimePasses == wpc[D] = "sleep" /\ sleepLeft' < sleepLeft

\* C28: once a stop has been requested while the demuxer waits out the delay
\* between attempts, the wait ends with the unit of time (the chunk) that is
\* passing: the demuxer does not stay in the wait for the rest of the delay.
C28_StopEndsDelay ==
    [][SleepingTimePasses /\ m_stopRequested => wpc'[D] # "sleep"]_vars

\* ======================================================================
\* Claims about the audio write pump
\* ======================================================================
\* the bytes the pump still holds: pending, or taken out and not yet written
RECURSIVE Flatten(_)
Flatten(bufs) ==
    IF bufs = <<>> THEN <<>> ELSE Head(bufs) \o Flatten(Tail(bufs))

HeldIds ==
    {b.id : b \in SeqToSet(Flatten(m_audioPendingQueue))}
        \cup {b.id : b \in SeqToSet(Mid(Flatten(localQueue), offset))}

\* the step writes to the audio sink
SinkWrite == Len(sinkWritten') > Len(sinkWritten)

\* the sink has received a part of a buffer whose rest the pump still holds
PartWritten ==
    /\ sinkWritten # <<>>
    /\ ~sinkWritten[Len(sinkWritten)].last
    /\ sinkWritten[Len(sinkWritten)].id + 1 \in HeldIds

KeysOf(url) == SeqToSet(url.query)

\* start() has stored the sanitised URL
UrlStored == m_currentUrl # NoUrl

\* C27: the URL that start() stores for a URL of scheme rtmp or tcp has
\* neither a listen nor a listen_timeout query item and has every other key
\* of the URL given; for every other scheme it is the URL given; and
\* sanitising the stored URL again changes nothing.
C27_SanitizedUrl ==
    UrlStored =>
        /\ IF SchemeLower(urlGiven.scheme) \in {"rtmp", "tcp"}
           THEN KeysOf(m_currentUrl)
                    = KeysOf(urlGiven) \ {"listen", "listen_timeout"}
           ELSE m_currentUrl = urlGiven
        /\ sanitizeInputUrl(m_currentUrl) = m_currentUrl

\* ======================================================================
\* Claims about the packets of the decode loops
\* ======================================================================
\* the decode loop holds the data of a popped packet
PacketHeld(w) == packet[w] # NoPacket

\* between pop's return and the end of the lock_guard's scope
InIteration(w) == wpc[w] \in {"decode", "using"}

\* the video loop holds its packet exactly while it is between the pop and
\* the release, and has an image to emit only at the emission
OnePacketOneImage ==
    /\ PacketHeld("video") <=> InIteration("video")
    /\ frameImage <= 1
    /\ frameImage > 0 => wpc["video"] = "emit"

\* a step of the video loop: it arrives at the emission only from the
\* decoding of a packet and leaves it with the image handed on; and with no
\* decoder or scaler it releases the packet and is back at the loop's head
VideoIterationStep ==
    /\ wpc'["video"] = "emit" /\ wpc["video"] # "emit" => wpc["video"] = "using"
    /\ wpc["video"] = "emit" /\ wpc'["video"] # "emit" =>
           frameImage = 1 /\ frameImage' = 0 /\ wpc'["video"] = "top"
    /\ wpc["video"] = "decode" /\ wpc'["video"] # "decode" /\ ~ctx =>
           wpc'["video"] = "top" /\ ~PacketHeld("video")' /\ frameImage' = 0

\* C31: for each packet popped from the video queue the video stage
\* delivers at most one frame to the frame sink and releases the packet
\* exactly once on every path; when no decoder or scaler exists the packet
\* is released, no frame is delivered and the stage keeps running.
C31_OneFramePerPacket == []OnePacketOneImage /\ [][VideoIterationStep]_vars

\* the video loop is about to emit the image of a packet it has released,
\* on the second connection of the session
C31_Witness ==
    /\ wpc["video"] = "emit"
    /\ frameImage = 1
    /\ ~PacketHeld("video")
    /\ conn = 2

\* C36: a packet read from connection k is never submitted to the decoder
\* context created for a later connection: a decode loop that holds
\* m_contextMutex to decode holds a packet of the connection the published
\* contexts belong to.
C36_PacketMeetsOwnContext ==
    \A w \in Decoders : wpc[w] = "using" => packet[w] = conn

\* ======================================================================
\* Claims about the audio setup of a connection
\* ======================================================================
\* openStream leaves its audio part
AudioSetupEnds ==
    /\ wpc[D] \in {"audioSetup", "audioTeardown"}
    /\ wpc'[D] \notin {"audioSetup", "audioTeardown"}

\* C32: any failure while setting up audio for a connection disables audio
\* for that connection only: the open still succeeds, "Playing" is emitted,
\* the video contexts are published, and the failure does not count as a
\* failed connection attempt.
C32_AudioFailureOnlyDisablesAudio ==
    [][AudioSetupEnds =>
          /\ wpc'[D] = "reading"
          /\ ctx'
          /\ Emits("Playing")
          /\ retryCount' = 0]_vars

\* ======================================================================
\* Claims about push of the single queue (packetqueue.cpp)
\* ======================================================================
\* this step is the return of a push of producer t with the value false
PushReturnsFalse(t) ==
    /\ StepOf("push")
    /\ ret'[t] = "false"
    /\ pc'[t] = "idle"
    /\ pc[t] # "idle" \/ cur'[t] # cur[t]

\* C33: a push that returns false leaves the queue contents unchanged:
\* under either policy, when push fails because the queue is closed, the
\* running flag is false (also when it is cleared while push executes) or
\* the packet cannot be duplicated, no resident packet has been removed
\* and nothing has been enqueued.
C33_FailedPushLeavesQueue ==
    [][\A t \in Producers :
          PushReturnsFalse(t) => m_queue' = m_queue /\ evicted[t] = {}]_vars

\* C38: under DropOldest, push never waits on a condition and never
\* removes a packet from an empty queue, for every capacity that the
\* constructor or set_max_size accepts, 0 included.
C38_DropOldestPushNeverWaitsNorUnderflows ==
    m_policy = "DropOldest" =>
        /\ ub = "none"
        /\ \A t \in Producers : pc[t] \notin {"waitNotFull", "wokeNotFull"}

\* ======================================================================
\* Claims about what the audio write pump keeps
\* ======================================================================
\* the bytes the audio sink has received
WrittenIds == {b.id : b \in SeqToSet(sinkWritten)}

\* C34: the audio write pump never discards data: with no stop, every PCM
\* byte appended to the pending-audio FIFO has been written to the audio
\* sink or is still held for a later write, also when the sink reports no
\* free space or a write returns no bytes in the middle of a tick.
C34_PumpDiscardsNothing == \A id \in 1..appended : id \in WrittenIds \cup HeldIds

\* ======================================================================
\* Claims about the worker threads of successive sessions
\* ======================================================================
\* start() assigns the three std::thread members (lines 158-160)
ThreadsAssigned(c) == cpc[c] = "spawn" /\ cpc'[c] # "spawn"

\* C35: at most one set of worker threads exists at any time: start()
\* never assigns new demux, video or audio threads while a worker thread of
\* the previous session is still unjoined, for every interleaving of
\* start() with stop() calls issued from other threads.
C35_OneSetOfWorkers ==
    [][\A c \in Callers :
          ThreadsAssigned(c) => \A w \in Workers : ~joinable[w]]_vars

\* ======================================================================
\* Claims about the queues of a stopped player
\* ======================================================================
\* C37: from the completion of the shutdown routine until the next start(),
\* both packet queues are closed as well as empty, also when the shutdown
\* routine runs while the demuxer is in the middle of its reconnect
\* sequence.
C37_QueuesClosedAfterShutdown ==
    ShutdownCompleted => \A q \in Decoders : qclosed[q] /\ qn[q] = 0

====
